---- MODULE Spec2Model ----
(***************************************************************************)
(* A model of the excel_agent backend: the on-disk column index            *)
(* (file_indexer.py), the fuzzy matcher (match_excel_file), the analysis   *)
(* code generator (code_generator.py), the column lineage extractor        *)
(* (column_lineage.py), the code runner (code_runner.py) and the request   *)
(* handlers of main.py that chain them.                                    *)
(*                                                                         *)
(* Strings are sequences of one-character strings, so that lower-casing,   *)
(* character removal, substring tests and stripping are computed and not   *)
(* assumed.  A Python Optional is a sequence of length at most one:        *)
(* None is << >>, a present value x is << x >>.                            *)
(***************************************************************************)
EXTENDS Integers, Sequences, FiniteSets, TLC

\* ------------------------------------------------------------------------
\* Bounds of the model
\* ------------------------------------------------------------------------
MaxCols == 1
MaxGroupBy == 1

\* ------------------------------------------------------------------------
\* Optional values and Python truthiness
\* ------------------------------------------------------------------------
None == << >>
Some(x) == << x >>
IsNone(o) == Len(o) = 0
Val(o) == o[1]

\* bool(x) of an Optional[str]: None and "" are falsy.
Truthy(o) == Len(o) = 1 /\ Len(o[1]) > 0

\* ------------------------------------------------------------------------
\* Names used by the model
\* ------------------------------------------------------------------------
nEmpty == << >>
nS == << "S" >>
ns == << "s" >>
nTS == << "T", "_", "S" >>
nP == << "P" >>
nUnder == << "_" >>

\* Column names a spreadsheet may carry.
ColNames == { nS, nTS, nP }

\* Values the NL model may put in the intent fields of an /analyze request.
MetricNames == { ns, nP, nEmpty }
GroupNames == { nP, ns }
TimeNames == { nP, nEmpty }

\* Values the NL model may put in the intent fields of an /analyze/plan request.
PlanMetricNames == { ns, nP, nEmpty, nUnder }
PlanGroupNames == { nP, ns, nEmpty }
PlanTimeNames == { nP, nEmpty }

Files == { "a.xlsx", "b.xlsx" }

\* Sequences over S of length lo..hi.
SeqsOf(S, lo, hi) == UNION { [1..n -> S] : n \in lo..hi }

\* The elements of a sequence.
RangeOf(seq) == { seq[i] : i \in 1..Len(seq) }

\* Sequences without a repeated element.
NoDup(s) == \A i, j \in 1..Len(s) : s[i] = s[j] => i = j

\* Column lists of a preprocessed sheet: pandas column labels, no repeats.
ColumnLists == { c \in SeqsOf(ColNames, 0, MaxCols) : NoDup(c) }

\* ------------------------------------------------------------------------
\* file_indexer._normalize_string
\* ------------------------------------------------------------------------
Lower(c) ==
    CASE c = "S" -> "s"
      [] c = "T" -> "t"
      [] c = "P" -> "p"
      [] OTHER -> c

Removed == { " ", "_", "-" }

normalize_string(s) ==
    IF Len(s) = 0
    THEN << >>
    ELSE SelectSeq([i \in 1..Len(s) |-> Lower(s[i])], LAMBDA c : c \notin Removed)

\* Python's `a in b` on strings.
IsSubstr(a, b) ==
    \E i \in 0..(Len(b) - Len(a)) : SubSeq(b, i + 1, i + Len(a)) = a

MinOf(S) == CHOOSE x \in S : \A y \in S : x <= y

\* The first position of x in seq.
FirstPos(x, seq) == MinOf({ i \in 1..Len(seq) : seq[i] = x })

\* ------------------------------------------------------------------------
\* file_indexer._fuzzy_match
\* ------------------------------------------------------------------------
ExactHits(target, candidates) ==
    { i \in 1..Len(candidates) :
        normalize_string(candidates[i]) = normalize_string(target) }

SubstrHits(target, candidates) ==
    { i \in 1..Len(candidates) :
        \/ IsSubstr(normalize_string(target), normalize_string(candidates[i]))
        \/ IsSubstr(normalize_string(candidates[i]), normalize_string(target)) }

fuzzy_match(target, candidates) ==
    IF Len(target) = 0
    THEN None
    ELSE IF ExactHits(target, candidates) # {}
         THEN Some(candidates[MinOf(ExactHits(target, candidates))])
         ELSE IF SubstrHits(target, candidates) # {}
              THEN Some(candidates[MinOf(SubstrHits(target, candidates))])
              ELSE None

\* ------------------------------------------------------------------------
\* file_indexer.match_excel_file
\* ------------------------------------------------------------------------
\* A score is the quotient num/den, kept as the two integers Python divides.
Score(n, d) == [num |-> n, den |-> d]
ZeroScore == Score(0, 1)
ScoreGt(a, b) == a.num * b.den > b.num * a.den
ScoreGe(a, b) == a.num * b.den >= b.num * a.den
ScoreEq(a, b) == a.num * b.den = b.num * a.den

\* intent_fields: (field_type, field_value) pairs in the order collected.
intent_fields(intent) ==
    (IF Truthy(intent.metric)
        THEN << [type |-> "metric", value |-> Val(intent.metric)] >>
        ELSE << >>)
    \o [i \in 1..Len(intent.group_by) |->
            [type |-> "group_by", value |-> intent.group_by[i]]]
    \o (IF Truthy(intent.time_field)
        THEN << [type |-> "time_field", value |-> Val(intent.time_field)] >>
        ELSE << >>)

metric_required(intent) == ~IsNone(intent.metric)

\* MetricStep with the `continue` of the else branch lost: a file whose
\* columns lack the metric is scored on its other fields.
MetricStep_NoSkip(intent, columns) ==
    IF metric_required(intent) /\ Truthy(fuzzy_match(Val(intent.metric), columns))
    THEN [skip |-> FALSE, matches |-> 1,
          matched_columns |-> << Val(fuzzy_match(Val(intent.metric), columns)) >>,
          used_columns |-> << Val(intent.metric) >>]
    ELSE [skip |-> FALSE, matches |-> 0,
          matched_columns |-> << >>, used_columns |-> << >>]

\* The metric check at the head of the per-file loop body.
MetricStep(intent, columns) ==
    IF metric_required(intent)
    THEN LET matched_metric == fuzzy_match(Val(intent.metric), columns)
         IN IF Truthy(matched_metric)
            THEN [skip |-> FALSE, matches |-> 1,
                  matched_columns |-> << Val(matched_metric) >>,
                  used_columns |-> << Val(intent.metric) >>]
            ELSE [skip |-> TRUE, matches |-> 0,
                  matched_columns |-> << >>, used_columns |-> << >>]
    ELSE [skip |-> FALSE, matches |-> 0,
          matched_columns |-> << >>, used_columns |-> << >>]

\* FieldLoop without the `continue` for the metric entry: the metric is
\* matched and counted a second time.
RECURSIVE FieldLoop_CountsMetric(_, _, _, _, _)
FieldLoop_CountsMetric(intent, fields, columns, k, acc) ==
    IF k > Len(fields)
    THEN acc
    ELSE LET matched_col == fuzzy_match(fields[k].value, columns)
         IN IF Truthy(matched_col)
            THEN FieldLoop_CountsMetric(intent, fields, columns, k + 1,
                   [acc EXCEPT !.matches = @ + 1,
                               !.matched_columns = Append(@, Val(matched_col)),
                               !.used_columns = Append(@, fields[k].value)])
            ELSE FieldLoop_CountsMetric(intent, fields, columns, k + 1, acc)

\* The loop over intent_fields of the per-file loop body, from field k on.
RECURSIVE FieldLoop(_, _, _, _, _)
FieldLoop(intent, fields, columns, k, acc) ==
    IF k > Len(fields)
    THEN acc
    ELSE IF fields[k].type = "metric" /\ metric_required(intent)
         THEN FieldLoop(intent, fields, columns, k + 1, acc)
         ELSE LET matched_col == fuzzy_match(fields[k].value, columns)
              IN IF Truthy(matched_col)
                 THEN FieldLoop(intent, fields, columns, k + 1,
                        [acc EXCEPT !.matches = @ + 1,
                                    !.matched_columns = Append(@, Val(matched_col)),
                                    !.used_columns = Append(@, fields[k].value)])
                 ELSE FieldLoop(intent, fields, columns, k + 1, acc)

\* One iteration of `for file_name, columns in index.items()`.
ScoreFile(intent, columns) ==
    LET m == MetricStep(intent, columns)
    IN IF m.skip
       THEN m
       ELSE FieldLoop(intent, intent_fields(intent), columns, 1, m)

\* Better with >= for >: a later file replaces the best on an equal score.
Better_OrEqual(score, best_score) == ScoreGe(score, best_score)

\* `if score > best_score`
Better(score, best_score) == ScoreGt(score, best_score)

\* NoMatch with best_score started below zero.
NoMatch_Negative ==
    [file_name |-> None, score |-> Score(-1, 1),
     matched_columns |-> << >>, used_columns |-> << >>, scanned |-> 0]

NoMatch ==
    [file_name |-> None, score |-> ZeroScore,
     matched_columns |-> << >>, used_columns |-> << >>, scanned |-> 0]

\* The loop over the index, from entry k on; best carries best_match,
\* best_score, best_matched_columns, best_used_columns and the number of
\* entries the loop has visited.
RECURSIVE FileLoop(_, _, _, _)
FileLoop(intent, index, k, best) ==
    IF k > Len(index)
    THEN best
    ELSE LET r == ScoreFile(intent, index[k].columns)
             visited == [best EXCEPT !.scanned = @ + 1]
             score == Score(r.matches, Len(intent_fields(intent)))
         IN IF r.skip
            THEN FileLoop(intent, index, k + 1, visited)
            ELSE IF Better(score, best.score)
                 THEN FileLoop(intent, index, k + 1,
                        [file_name |-> Some(index[k].file_name),
                         score |-> score,
                         matched_columns |-> r.matched_columns,
                         used_columns |-> r.used_columns,
                         scanned |-> visited.scanned])
                 ELSE FileLoop(intent, index, k + 1, visited)

\* match_excel_file without the early return for an intent without fields.
match_excel_file_NoEarlyReturn(intent, index) == FileLoop(intent, index, 1, NoMatch)

\* The result carries `scanned`, the number of index entries the call
\* visited, next to the four keys of the returned dictionary.
match_excel_file(intent, index) ==
    IF Len(intent_fields(intent)) = 0
    THEN NoMatch
    ELSE FileLoop(intent, index, 1, NoMatch)

\* ------------------------------------------------------------------------
\* Program text
\* ------------------------------------------------------------------------
\* A text is a sequence of tokens [t, o]: t is a lexeme (a punctuation mark, an
\* identifier, or one character of an interpolated value) and o says where the
\* lexeme comes from: "tpl" a literal of the generator's source, "intent" a
\* value of the intent the NL model returned, "file" an uploaded file's name,
\* "request" the body of a request.
Tpl(ts) == [i \in 1..Len(ts) |-> [t |-> ts[i], o |-> "tpl"]]
Txt(name, origin) == [i \in 1..Len(name) |-> [t |-> name[i], o |-> origin]]

\* ws[1] " " ws[2] " " ... : a run of template words separated by blanks.
Words(ws) ==
    Tpl([i \in 1..(2 * Len(ws) - 1) |-> IF i % 2 = 1 THEN ws[(i + 1) \div 2] ELSE " "])

\* f"'{col}'"
Quoted(name) == Tpl(<< "'" >>) \o Txt(name, "intent") \o Tpl(<< "'" >>)

\* ", ".join([f"'{col}'" for col in cols])
RECURSIVE group_cols_str(_)
group_cols_str(cols) ==
    IF Len(cols) = 0 THEN << >>
    ELSE IF Len(cols) = 1 THEN Quoted(cols[1])
    ELSE Quoted(cols[1]) \o Tpl(<< ",", " " >>) \o group_cols_str(Tail(cols))

\* "\n".join(code_lines)
RECURSIVE JoinLines(_)
JoinLines(lines) ==
    IF Len(lines) = 0 THEN << >>
    ELSE IF Len(lines) = 1 THEN lines[1]
    ELSE lines[1] \o Tpl(<< "\n" >>) \o JoinLines(Tail(lines))

\* os.path.join(DATA_DIR, target_file)
file_path_of(target_file) ==
    Tpl(<< "data", "/" >>) \o << [t |-> target_file, o |-> "file"] >>

\* The six lines every generated program starts with.
HeaderLines(file_path) ==
    << Words(<< "import", "pandas", "as", "pd" >>),
       Words(<< "from", "excel_preprocessor", "import", "preprocess_excel" >>),
       << >>,
       Words(<< "#", "Load", "the", "preprocessed", "DataFrame" >>),
       Words(<< "df", "=", "preprocess_excel" >>) \o Tpl(<< "(", "'" >>)
           \o file_path \o Tpl(<< "'", ")" >>),
       << >> >>

ResultIs(rhs) == Words(<< "result", "=" >>) \o Tpl(<< " " >>) \o rhs

\* bool(metric), bool(time_field), bool(group_by), bool(top_n)
TruthyList(l) == Len(l) > 0
TruthyInt(o) == Len(o) = 1 /\ o[1] # 0

\* [col for col in group_by if col != time_field]
other_group_cols(group_by, time_field) ==
    SelectSeq(group_by, LAMBDA col : col # Val(time_field))

\* n = top_n if top_n else 10
TopNText(top_n) ==
    IF TruthyInt(top_n)
    THEN << [t |-> ToString(Val(top_n)), o |-> "intent"] >>
    ELSE Tpl(<< "10" >>)

\* df.groupby([...])  /  df_trend.groupby([...])
GroupbyCall(frame, cols) ==
    Tpl(<< frame, ".", "groupby", "(", "[" >>) \o group_cols_str(cols) \o Tpl(<< "]", ")" >>)

\* ['{metric}']
Subscript(name) == Tpl(<< "[" >>) \o Quoted(name) \o Tpl(<< "]" >>)

Call(fn) == Tpl(<< ".", fn, "(", ")" >>)

ResetIndexCount ==
    Tpl(<< ".", "size", "(", ")", ".", "reset_index", "(", "name", "=", "'", "count", "'", ")" >>)

ResampleM == Tpl(<< ".", "resample", "(", "'", "M", "'", ")" >>)

\* The branch for analysis_type in ["sum", "avg"].
SumAvgLines(analysis_type, metric, group_by) ==
    IF ~Truthy(metric)
    THEN << Words(<< "#", "Error:", "metric", "is", "required", "for", "sum/avg", "analysis" >>),
            ResultIs(Tpl(<< "None" >>)) >>
    ELSE LET agg_func == IF analysis_type = "sum" THEN "sum" ELSE "mean"
             m == Val(metric)
         IN IF TruthyList(group_by)
            THEN << Words(<< "#", "Group", "by" >>) \o Tpl(<< " " >>) \o group_cols_str(group_by)
                      \o Tpl(<< " " >>) \o Words(<< "and", "calculate", agg_func, "of" >>)
                      \o Tpl(<< " " >>) \o Txt(m, "intent"),
                    ResultIs(GroupbyCall("df", group_by) \o Subscript(m)
                               \o Call(agg_func) \o Call("reset_index")) >>
            ELSE << Words(<< "#", "Calculate", agg_func, "of" >>) \o Tpl(<< " " >>) \o Txt(m, "intent"),
                    ResultIs(Tpl(<< "pd", ".", "DataFrame", "(", "{", "'" >>)
                               \o Txt(m, "intent") \o Tpl(<< "_", agg_func, "'", ":", " ", "[", "df" >>)
                               \o Subscript(m) \o Call(agg_func) \o Tpl(<< "]", "}", ")" >>)) >>

\* The branch for analysis_type == "trend".
TrendLines(metric, group_by, time_field) ==
    IF ~Truthy(time_field)
    THEN << Words(<< "#", "Error:", "time_field", "is", "required", "for", "trend", "analysis" >>),
            ResultIs(Tpl(<< "None" >>)) >>
    ELSE LET tf == Val(time_field)
             others == other_group_cols(group_by, time_field)
             prep ==
               << Words(<< "#", "Convert" >>) \o Tpl(<< " " >>) \o Txt(tf, "intent") \o Tpl(<< " " >>)
                    \o Words(<< "to", "datetime", "if", "not", "already" >>),
                  Tpl(<< "df" >>) \o Subscript(tf) \o Tpl(<< " ", "=", " ", "pd", ".", "to_datetime", "(", "df" >>)
                    \o Subscript(tf) \o Tpl(<< ",", " ", "errors", "=", "'", "coerce", "'", ")" >>),
                  << >>,
                  Words(<< "#", "Set" >>) \o Tpl(<< " " >>) \o Txt(tf, "intent") \o Tpl(<< " " >>)
                    \o Words(<< "as", "index", "for", "resampling" >>),
                  Words(<< "df_trend", "=", "df" >>) \o Tpl(<< ".", "set_index", "(" >>)
                    \o Quoted(tf) \o Tpl(<< ")" >>),
                  << >> >>
         IN IF Truthy(metric)
            THEN IF TruthyList(others)
                 THEN prep \o
                      << Words(<< "#", "Group", "by" >>) \o Tpl(<< " " >>) \o group_cols_str(others)
                           \o Tpl(<< " " >>) \o Words(<< "and", "resample", "by", "month" >>),
                         ResultIs(GroupbyCall("df_trend", others) \o ResampleM
                                    \o Subscript(Val(metric)) \o Call("mean") \o Call("reset_index")) >>
                 ELSE prep \o
                      << Words(<< "#", "Resample", "by", "month", "and", "calculate", "mean", "of" >>)
                           \o Tpl(<< " " >>) \o Txt(Val(metric), "intent"),
                         ResultIs(Tpl(<< "df_trend" >>) \o ResampleM
                                    \o Subscript(Val(metric)) \o Call("mean") \o Call("reset_index")) >>
            ELSE IF TruthyList(others)
                 THEN prep \o
                      << Words(<< "#", "Group", "by" >>) \o Tpl(<< " " >>) \o group_cols_str(others)
                           \o Tpl(<< " " >>) \o Words(<< "and", "resample", "by", "month" >>)
                           \o Tpl(<< " ", "(", "count", ")" >>),
                         ResultIs(GroupbyCall("df_trend", others) \o ResampleM \o ResetIndexCount) >>
                 ELSE prep \o
                      << Words(<< "#", "Resample", "by", "month" >>) \o Tpl(<< " ", "(", "count", ")" >>),
                         ResultIs(Tpl(<< "df_trend" >>) \o ResampleM \o ResetIndexCount) >>

\* TopNLines without the check for a missing metric: the empty name stands
\* for the metric.
TopNLines_NoMetricCheck(metric, top_n) ==
    LET m == IF Truthy(metric) THEN Val(metric) ELSE nEmpty
    IN << Words(<< "#", "Sort", "by" >>) \o Tpl(<< " " >>) \o Txt(m, "intent") \o Tpl(<< " " >>)
            \o Words(<< "descending", "and", "take", "top" >>) \o Tpl(<< " " >>) \o TopNText(top_n),
          ResultIs(Tpl(<< "df", ".", "nlargest", "(" >>) \o TopNText(top_n)
                     \o Tpl(<< ",", " " >>) \o Quoted(m) \o Tpl(<< ")" >>)) >>

\* The branch for analysis_type == "topn".
TopNLines(metric, top_n) ==
    IF ~Truthy(metric)
    THEN << Words(<< "#", "Error:", "metric", "is", "required", "for", "topn", "analysis" >>),
            ResultIs(Tpl(<< "None" >>)) >>
    ELSE << Words(<< "#", "Sort", "by" >>) \o Tpl(<< " " >>) \o Txt(Val(metric), "intent") \o Tpl(<< " " >>)
              \o Words(<< "descending", "and", "take", "top" >>) \o Tpl(<< " " >>) \o TopNText(top_n),
            ResultIs(Tpl(<< "df", ".", "nlargest", "(" >>) \o TopNText(top_n)
                       \o Tpl(<< ",", " " >>) \o Quoted(Val(metric)) \o Tpl(<< ")" >>)) >>

\* GroupbyLines asking for the metric first: with a metric and an empty
\* group_by the metric is aggregated over the whole table.
GroupbyLines_MetricFirst(metric, group_by) ==
    IF Truthy(metric)
    THEN << Words(<< "#", "Group", "by" >>) \o Tpl(<< " " >>) \o group_cols_str(group_by)
              \o Tpl(<< " " >>) \o Words(<< "and", "aggregate" >>) \o Tpl(<< " " >>)
              \o Txt(Val(metric), "intent"),
            ResultIs((IF TruthyList(group_by) THEN GroupbyCall("df", group_by) ELSE Tpl(<< "df" >>))
                       \o Subscript(Val(metric))
                       \o Tpl(<< ".", "agg", "(", "[", "'", "count", "'", ",", " ",
                                 "'", "mean", "'", ",", " ", "'", "sum", "'", "]", ")" >>)
                       \o Call("reset_index")) >>
    ELSE IF TruthyList(group_by)
         THEN << Words(<< "#", "Group", "by" >>) \o Tpl(<< " " >>) \o group_cols_str(group_by)
                   \o Tpl(<< " " >>) \o Words(<< "and", "count" >>),
                 ResultIs(GroupbyCall("df", group_by) \o ResetIndexCount) >>
         ELSE << Words(<< "#", "No", "group_by", "columns", "specified" >>),
                 ResultIs(Tpl(<< "df" >>)) >>

\* The branch for analysis_type == "groupby".
GroupbyLines(metric, group_by) ==
    IF TruthyList(group_by)
    THEN IF Truthy(metric)
         THEN << Words(<< "#", "Group", "by" >>) \o Tpl(<< " " >>) \o group_cols_str(group_by)
                   \o Tpl(<< " " >>) \o Words(<< "and", "aggregate" >>) \o Tpl(<< " " >>)
                   \o Txt(Val(metric), "intent"),
                 ResultIs(GroupbyCall("df", group_by) \o Subscript(Val(metric))
                            \o Tpl(<< ".", "agg", "(", "[", "'", "count", "'", ",", " ",
                                      "'", "mean", "'", ",", " ", "'", "sum", "'", "]", ")" >>)
                            \o Call("reset_index")) >>
         ELSE << Words(<< "#", "Group", "by" >>) \o Tpl(<< " " >>) \o group_cols_str(group_by)
                   \o Tpl(<< " " >>) \o Words(<< "and", "count" >>),
                 ResultIs(GroupbyCall("df", group_by) \o ResetIndexCount) >>
    ELSE << Words(<< "#", "No", "group_by", "columns", "specified" >>),
            ResultIs(Tpl(<< "df" >>)) >>

\* The branch for analysis_type == "sort".
SortLines(metric) ==
    IF Truthy(metric)
    THEN << Words(<< "#", "Sort", "by" >>) \o Tpl(<< " " >>) \o Txt(Val(metric), "intent")
              \o Tpl(<< " ", "descending" >>),
            ResultIs(Tpl(<< "df", ".", "sort_values", "(" >>) \o Quoted(Val(metric))
                       \o Tpl(<< ",", " ", "ascending", "=", "False", ")" >>)) >>
    ELSE << Words(<< "#", "No", "metric", "specified", "for", "sorting" >>),
            ResultIs(Tpl(<< "df" >>)) >>

\* UnknownLines answering an unknown kind like a missing field: an error
\* comment and no result.
UnknownLines_AsError(analysis_type) ==
    << Words(<< "#", "Error:", "unknown", "analysis_type" >>),
       ResultIs(Tpl(<< "None" >>)) >>

\* The final else: an analysis_type outside the six known ones.
UnknownLines(analysis_type) ==
    << Words(<< "#", "Unknown", "analysis_type:" >>) \o Tpl(<< " " >>)
         \o << [t |-> analysis_type, o |-> "intent"] >>,
       ResultIs(Tpl(<< "df" >>)) >>

\* code_generator.generate_analysis_code
generate_analysis_code(file_path, intent) ==
    JoinLines(
      HeaderLines(file_path) \o
      (CASE intent.analysis_type \in { "sum", "avg" } ->
               SumAvgLines(intent.analysis_type, intent.metric, intent.group_by)
         [] intent.analysis_type = "trend" ->
               TrendLines(intent.metric, intent.group_by, intent.time_field)
         [] intent.analysis_type = "topn" -> TopNLines(intent.metric, intent.top_n)
         [] intent.analysis_type = "groupby" -> GroupbyLines(intent.metric, intent.group_by)
         [] intent.analysis_type = "sort" -> SortLines(intent.metric)
         [] OTHER -> UnknownLines(intent.analysis_type)))

\* ------------------------------------------------------------------------
\* column_lineage.extract_used_columns
\* ------------------------------------------------------------------------
\* Lexemes that do not end in a word character (\w).
NonWordToks ==
    { "'", "\"", "[", "]", "(", ")", "{", "}", ",", ".", ":", "=", "/", "#",
      " ", "\n", "-", "Error:", "analysis_type:" }

EndsWord(t) == t \notin NonWordToks
IsQuote(t) == t \in { "'", "\"" }
IsSpace(t) == t \in { " ", "\n" }

\* code[i].t, or "" past either end of the text.
TokAt(code, i) == IF i >= 1 /\ i <= Len(code) THEN code[i].t ELSE ""

\* The last position of the longest run of tokens from i on whose lexeme is
\* not in stop (i - 1 when the run is empty).
RunEnd(code, i, stop) ==
    LET bad == { k \in i..Len(code) : code[k].t \in stop }
    IN IF bad = {} THEN Len(code) ELSE MinOf(bad) - 1

Lexemes(code, i, j) == [k \in 1..(j - i + 1) |-> code[i + k - 1].t]

NoHit == [ok |-> FALSE, cap |-> << >>, end |-> 0]

\* ["\']([^"\']+)["\'] matched at position i.
QuotedAt(code, i) ==
    LET e == RunEnd(code, i + 1, { "'", "\"" })
    IN IF IsQuote(TokAt(code, i)) /\ e >= i + 1 /\ IsQuote(TokAt(code, e + 1))
       THEN [ok |-> TRUE, cap |-> Lexemes(code, i + 1, e), end |-> e + 1]
       ELSE NoHit

\* q, when it is followed by the lexemes of tail.
Followed(code, q, tail) ==
    IF q.ok /\ \A k \in 1..Len(tail) : TokAt(code, q.end + k) = tail[k]
    THEN [q EXCEPT !.end = @ + Len(tail)]
    ELSE NoHit

\* pattern1: \w+\[["\']([^"\']+)["\']\]
Pattern1At(code, i) ==
    IF TokAt(code, i + 1) = "[" /\ EndsWord(TokAt(code, i))
    THEN Followed(code, QuotedAt(code, i + 2), << "]" >>)
    ELSE NoHit

\* pattern2: groupby\(\[["\']([^"\']+)["\']\]\)
Pattern2At(code, i) ==
    IF TokAt(code, i) = "groupby" /\ TokAt(code, i + 1) = "(" /\ TokAt(code, i + 2) = "["
    THEN Followed(code, QuotedAt(code, i + 3), << "]", ")" >>)
    ELSE NoHit

\* pattern3: \.n(?:largest|smallest)\([^,]+,\s*["\']([^"\']+)["\']\)
Pattern3At(code, i) ==
    IF /\ TokAt(code, i) = "."
       /\ TokAt(code, i + 1) \in { "nlargest", "nsmallest" }
       /\ TokAt(code, i + 2) = "("
    THEN LET e == RunEnd(code, i + 3, { "," })
             w == RunEnd(code, e + 2, { t \in { code[k].t : k \in 1..Len(code) } : ~IsSpace(t) })
         IN IF e >= i + 3 /\ TokAt(code, e + 1) = ","
            THEN Followed(code, QuotedAt(code, w + 1), << ")" >>)
            ELSE NoHit
    ELSE NoHit

\* pattern4: \.sort_values\(["\']([^"\']+)["\']\)
Pattern4At(code, i) ==
    IF TokAt(code, i) = "." /\ TokAt(code, i + 1) = "sort_values" /\ TokAt(code, i + 2) = "("
    THEN Followed(code, QuotedAt(code, i + 3), << ")" >>)
    ELSE NoHit

\* resample\([^\)]+\)\[["\']([^"\']+)["\']\]
ResampleAt(code, i) ==
    IF TokAt(code, i) = "resample" /\ TokAt(code, i + 1) = "("
    THEN LET e == RunEnd(code, i + 2, { ")" })
         IN IF e >= i + 2 /\ TokAt(code, e + 1) = ")" /\ TokAt(code, e + 2) = "["
            THEN Followed(code, QuotedAt(code, e + 3), << "]" >>)
            ELSE NoHit
    ELSE NoHit

\* groupby\(\[([^\]]+)\]\) : the capture is kept as tokens, for the inner findall.
GroupbyListAt(code, i) ==
    IF TokAt(code, i) = "groupby" /\ TokAt(code, i + 1) = "(" /\ TokAt(code, i + 2) = "["
    THEN LET e == RunEnd(code, i + 3, { "]" })
         IN IF e >= i + 3 /\ TokAt(code, e + 1) = "]" /\ TokAt(code, e + 2) = ")"
            THEN [ok |-> TRUE, cap |-> SubSeq(code, i + 3, e), end |-> e + 2]
            ELSE NoHit
    ELSE NoHit

PatternAt(p, code, i) ==
    CASE p = "pattern1" -> Pattern1At(code, i)
      [] p = "pattern2" -> Pattern2At(code, i)
      [] p = "pattern3" -> Pattern3At(code, i)
      [] p = "pattern4" -> Pattern4At(code, i)
      [] p = "resample" -> ResampleAt(code, i)
      [] p = "groupby_list" -> GroupbyListAt(code, i)
      [] p = "quoted" -> QuotedAt(code, i)

\* The leftmost non-overlapping matches among the match positions hits, from
\* position i on.
RECURSIVE Leftmost(_, _, _, _)
Leftmost(p, code, hits, i) ==
    LET starts == { k \in hits : k >= i }
    IN IF starts = {}
       THEN << >>
       ELSE LET m == PatternAt(p, code, MinOf(starts))
            IN << m.cap >> \o Leftmost(p, code, hits, m.end + 1)

\* re.findall(p, code): the captures of the leftmost non-overlapping matches.
FindAll(p, code) ==
    Leftmost(p, code, { k \in 1..Len(code) : PatternAt(p, code, k).ok }, 1)

\* The inner findall over each groupby list, concatenated.
RECURSIVE GroupbyColumns(_)
GroupbyColumns(lists) ==
    IF Len(lists) = 0 THEN << >>
    ELSE FindAll("quoted", lists[1]) \o GroupbyColumns(Tail(lists))

\* all_matches, in the order the function collects them.
all_matches(code) ==
    FindAll("pattern1", code) \o FindAll("pattern2", code)
    \o FindAll("pattern3", code) \o FindAll("pattern4", code)
    \o FindAll("resample", code)
    \o GroupbyColumns(FindAll("groupby_list", code))

\* str.strip()
RECURSIVE Strip(_)
Strip(s) ==
    IF Len(s) = 0 THEN s
    ELSE IF IsSpace(Head(s)) THEN Strip(Tail(s))
    ELSE IF IsSpace(s[Len(s)]) THEN Strip(SubSeq(s, 1, Len(s) - 1))
    ELSE s

\* The de-duplicating loop, from match k on.
RECURSIVE Unique(_, _, _)
Unique(matches, k, unique_columns) ==
    IF k > Len(matches)
    THEN unique_columns
    ELSE LET col == Strip(matches[k])
         IN IF Len(col) > 0 /\ \A j \in 1..Len(unique_columns) : unique_columns[j] # col
            THEN Unique(matches, k + 1, Append(unique_columns, col))
            ELSE Unique(matches, k + 1, unique_columns)

extract_used_columns(code) == Unique(all_matches(code), 1, << >>)

\* ------------------------------------------------------------------------
\* State
\* ------------------------------------------------------------------------
VARIABLES
    disk,       \* data/*.xlsx: file name -> column list of the preprocessed sheet
    index,      \* data/index.json: None, or Some(sequence of entries)
    pc,         \* "idle", or "done" when a handler has returned its response
    response,   \* the value the last handler returned
    executed,   \* the texts the handler passed to exec(), in call order
    opened,     \* the files an upload has opened for writing and not yet written
    \* a /ws/speech connection (main.websocket_speech)
    audio_buffer,   \* the chunks received and not yet dropped, oldest first
    processing,     \* the flag process_final_transcript sets while it runs
    timeout_task,   \* "None", or "sleeping": a live check_silence_timeout task
    proc,           \* per caller of process_final_transcript: where its call stands
    sent,           \* the types of the messages sent to the client, in order
    quiet,          \* silence_timeout has passed since the last chunk
    heard,          \* the number of chunks received on the connection
    transcribed,    \* the chunks that were passed to a final transcription
    cleared,        \* the chunks a "reset" message dropped
    \* code_runner.run_analysis_code called from worker threads
    sys_stdout,     \* sys.stdout: 0 the process's stream, k the k-th StringIO created
    wpc,            \* per worker: where its call of run_analysis_code stands
    old_stdout,     \* per worker: the local old_stdout, a stream
    stdout_capture, \* per worker: the local stdout_capture, a stream
    streams,        \* the text of each StringIO: the calls whose code printed into it
    stdout_content  \* per worker: its last call and the "stdout" field it returned

speech_vars ==
    << audio_buffer, processing, timeout_task, proc, sent, quiet, heard, transcribed, cleared >>
stdio_vars == << sys_stdout, wpc, old_stdout, stdout_capture, streams, stdout_content >>

\* The callers of process_final_transcript: the receive loop on "end" and
\* the silence-timeout task.
Callers == { "receive", "timeout" }

\* A caller that is not inside process_final_transcript.
Outside == [stage |-> "out", todo |-> << >>, cancelled |-> FALSE]

\* The worker threads that may call run_analysis_code.
Workers == { 1, 2 }

vars == << disk, index, pc, response, executed, opened, speech_vars, stdio_vars >>

\* ------------------------------------------------------------------------
\* Inputs
\* ------------------------------------------------------------------------
valid_analysis_types == { "sum", "avg", "trend", "groupby", "sort", "topn" }

\* What the NL model may answer for analysis_type: a valid kind or another word.
RawTypes == valid_analysis_types \cup { "pie" }

\* top_n as the NL model may give it; it is given with the topn kind only.
TopNs == { None, Some(-1), Some(0), Some(3) }

RawIntents ==
    { r \in [analysis_type : RawTypes,
             metric : { None } \cup { Some(n) : n \in MetricNames },
             group_by : SeqsOf(GroupNames, 0, MaxGroupBy),
             time_field : { None } \cup { Some(n) : n \in TimeNames },
             top_n : TopNs] :
        r.analysis_type # "topn" => r.top_n = None }

\* The NL model's answers to /analyze/plan questions.  match_excel_file reads
\* metric, group_by and time_field only, so one analysis kind stands for all.
PlanIntents ==
    [analysis_type : { "groupby" },
     metric : { None } \cup { Some(n) : n \in PlanMetricNames },
     group_by : SeqsOf(PlanGroupNames, 0, MaxGroupBy),
     time_field : { None } \cup { Some(n) : n \in PlanTimeNames },
     top_n : { None }]

\* Messages of the errors parse_intent raises: no API key is set, the NL
\* model's answer is not JSON, or the request to the NL model failed.
ParseErrors ==
    { "GOOGLE_GEMINI_API_KEY environment variable is not set.",
      "Failed to parse LLM response as JSON: ",
      "Error calling Gemini API: " }

\* intent_parser.parse_intent, after the NL model has answered raw: an
\* analysis_type outside the valid ones becomes "groupby".
parse_intent(raw) ==
    [raw EXCEPT !.analysis_type =
        IF raw.analysis_type \in valid_analysis_types THEN raw.analysis_type ELSE "groupby"]

\* Bodies a client may post to /analyze/execute, each one lexeme.
Req(text) == << [t |-> text, o |-> "request"] >>

RequestCodes ==
    { Req("__import__('os').system('id')"),
      Req("result = None"),
      Req("result = undefined_variable + 1"),
      Req("print('hi'); result = undefined_variable"),
      Req("print('hi')"),
      Req("result = 42"),
      Req("result = pd.DataFrame({'x': range(60)})"),
      Req("result = pd.Series(range(60))"),
      Req("result = pd.Series([1, 2], index=['a', 'a'], name='v')") }

\* Orders in which glob.glob may list the files of a directory.
Orders(S) == { o \in SeqsOf(S, Cardinality(S), Cardinality(S)) : NoDup(o) }

\* ------------------------------------------------------------------------
\* The index file
\* ------------------------------------------------------------------------
\* file_indexer.build_excel_index, for one listing order of the directory.
build_excel_index(d, order) ==
    [i \in 1..Len(order) |-> [file_name |-> order[i], columns |-> d[order[i]]]]

\* An index file whose text is no JSON document: neither None nor Some(...).
Garbled == << << >>, << >> >>
IsGarbled(ix) == Len(ix) = 2

\* json.load(f) on the index file.
json_load(ix) ==
    IF IsGarbled(ix)
    THEN [kind |-> "raise", exc |-> "JSONDecodeError", stdout |-> ""]
    ELSE [kind |-> "value", result |-> Val(ix), stdout |-> ""]

\* load_index without its try: what json.load raises leaves the function.
load_index_call_NoTry(ix) ==
    IF IsNone(ix)
    THEN [kind |-> "value", result |-> << >>, stdout |-> ""]
    ELSE json_load(ix)

\* file_indexer.load_index as a call that returns or raises: a missing file
\* reads as the empty index, and so does a file json.load raises on, after a
\* message is printed.
load_index_call(ix) ==
    IF IsNone(ix)
    THEN [kind |-> "value", result |-> << >>, stdout |-> ""]
    ELSE IF json_load(ix).kind = "raise"
    THEN [kind |-> "value", result |-> << >>, stdout |-> "Error loading index"]
    ELSE json_load(ix)

\* The dictionary file_indexer.load_index returns.
load_index(ix) == load_index_call(ix).result

\* ------------------------------------------------------------------------
\* Tables: the DataFrame preprocess_excel returns for a sheet
\* ------------------------------------------------------------------------
MaxRows == 2
PreviewLimit == 50

\* An empty cell (NaN) of a label column.
Null == "NaN"
Labels == { "a", "b" }
Numbers == { 1, 2 }

\* Columns that hold numbers; the other columns hold labels.
NumericColumns == { nS, ns, nTS }
IsNumeric(col) == col \in NumericColumns
CellsOf(col) == IF IsNumeric(col) THEN Numbers ELSE Labels \cup { Null }

\* An empty cell (NaN) of a numeric column: a number no filled cell holds.
NaN == 0
IsNull(row, col) == IF IsNumeric(col) THEN row[col] = NaN ELSE row[col] = Null

\* A row gives each column a cell.
RECURSIVE RowsOver(_)
RowsOver(cols) ==
    IF Len(cols) = 0
    THEN { [c \in {} |-> Null] }
    ELSE { (Head(cols) :> cell) @@ r : cell \in CellsOf(Head(cols)), r \in RowsOver(Tail(cols)) }

\* df.ffill(): an empty cell is found only above the first filled cell of its
\* column.
ForwardFilled(rows, cols) ==
    \A c \in RangeOf(cols) : \A i, j \in 1..Len(rows) :
        ( i < j /\ IsNull(rows[j], c) ) => IsNull(rows[i], c)

\* dropna(how='all') on both axes: no row has all its cells empty and no
\* column has.
NoEmptyLine(rows, cols) ==
    /\ \A i \in 1..Len(rows) : \E c \in RangeOf(cols) : ~IsNull(rows[i], c)
    /\ \A c \in RangeOf(cols) : Len(rows) > 0 => \E i \in 1..Len(rows) : ~IsNull(rows[i], c)

\* A sheet longer than the preview: row i carries i in its numeric columns.
LongRows(cols) ==
    [i \in 1..(PreviewLimit + 1) |-> [c \in RangeOf(cols) |-> IF IsNumeric(c) THEN i ELSE "a"]]

\* The row lists of a preprocessed sheet with the columns cols; a sheet
\* without columns has no rows (dropna(how='all')).
RowLists(cols) ==
    IF Len(cols) = 0
    THEN { << >> }
    ELSE { r \in SeqsOf(RowsOver(cols), 0, MaxRows) :
             ForwardFilled(r, cols) /\ NoEmptyLine(r, cols) }
         \cup { LongRows(cols) }

Tables(cols) == { [columns |-> cols, rows |-> r] : r \in RowLists(cols) }

\* Rows whose numeric cells may be empty as well.
RECURSIVE NullableRowsOver(_)
NullableRowsOver(cols) ==
    IF Len(cols) = 0
    THEN { [c \in {} |-> Null] }
    ELSE { (Head(cols) :> cell) @@ r :
             cell \in CellsOf(Head(cols)) \cup (IF IsNumeric(Head(cols)) THEN { NaN } ELSE {}),
             r \in NullableRowsOver(Tail(cols)) }

\* The preprocessed sheets with the columns cols whose cells may be empty in
\* every column, and the sheet longer than the preview.
NullableTables(cols) ==
    { [columns |-> cols, rows |-> r] :
        r \in { q \in SeqsOf(NullableRowsOver(cols), 0, MaxRows) :
                  ForwardFilled(q, cols) /\ NoEmptyLine(q, cols) }
              \cup { LongRows(cols) } }

\* ------------------------------------------------------------------------
\* What exec() of a text does: it raises, or it leaves a value in `result`
\* ------------------------------------------------------------------------
Raise(exc, out) == [kind |-> "raise", exc |-> exc, stdout |-> out]
Value(result, out) == [kind |-> "value", result |-> result, stdout |-> out]

NoResult == [type |-> "NoneType"]
DataFrame(cols, rows) == [type |-> "DataFrame", columns |-> cols, rows |-> rows]
Series(name, rows) == [type |-> "Series", name |-> name, rows |-> rows]
Scalar(type) == [type |-> type]

\* pandas operations the model does not compute: the text raises, or leaves a
\* frame of some length whose rows are left open.
Unmodelled ==
    { Raise("TypeError", "") }
    \cup { Value(DataFrame(<< >>, [i \in 1..n |-> i]), "") : n \in { 0, PreviewLimit + 1 } }


\* ------------------------------------------------------------------------
\* pandas: df.groupby([...])['m'].sum() / .mean(), then .reset_index()
\* ------------------------------------------------------------------------
\* The tuple of a row's cells in the columns group_by.
GroupKey(row, group_by) == [i \in 1..Len(group_by) |-> row[group_by[i]]]

\* The order of the cells of a column.
Rank(col, cell) ==
    IF IsNumeric(col) THEN cell
    ELSE CASE cell = "a" -> 1 [] cell = "b" -> 2 [] OTHER -> 0

\* Key k1 sorts before key k2.
KeyLess(group_by, k1, k2) ==
    \E i \in 1..Len(group_by) :
        /\ \A j \in 1..(i - 1) : k1[j] = k2[j]
        /\ Rank(group_by[i], k1[i]) < Rank(group_by[i], k2[i])

\* The keys of a set in ascending order.
RECURSIVE SortedKeys(_, _)
SortedKeys(group_by, keys) ==
    IF keys = {} THEN << >>
    ELSE LET least == CHOOSE k \in keys : \A o \in keys \ { k } : KeyLess(group_by, k, o)
         IN << least >> \o SortedKeys(group_by, keys \ { least })

RECURSIVE SumOf(_, _)
SumOf(rows, col) ==
    IF Len(rows) = 0 THEN 0
    ELSE (IF IsNull(Head(rows), col) THEN 0 ELSE Head(rows)[col]) + SumOf(Tail(rows), col)

\* The rows of a group, in table order.
RowsOfKey(rows, group_by, key) == SelectSeq(rows, LAMBDA r : GroupKey(r, group_by) = key)

\* The value of the aggregation over the rows of a group; a mean is kept as
\* the quotient sum/count.
Aggregate(agg_func, rows, metric) ==
    IF agg_func = "sum"
    THEN SumOf(rows, metric)
    ELSE [num |-> SumOf(rows, metric),
          den |-> Len(SelectSeq(rows, LAMBDA r : ~IsNull(r, metric)))]

\* groupby with its defaults sort=True and dropna=True: the keys are those of
\* the rows without an empty key cell, in ascending order.
GroupbyKeys(rows, group_by) ==
    SortedKeys(group_by,
               { GroupKey(rows[i], group_by) :
                   i \in { j \in 1..Len(rows) :
                             \A c \in RangeOf(group_by) : ~IsNull(rows[j], c) } })

\* One output row per key: the key's cells under the group columns and the
\* aggregated value under the metric.
GroupbyAggregate(table, group_by, metric, agg_func) ==
    LET keys == GroupbyKeys(table.rows, group_by)
    IN DataFrame(group_by \o << metric >>,
         [n \in 1..Len(keys) |->
            [c \in RangeOf(group_by) \cup { metric } |->
               IF c = metric
               THEN Aggregate(agg_func, RowsOfKey(table.rows, group_by, keys[n]), metric)
               ELSE keys[n][FirstPos(c, group_by)]]])

\* ------------------------------------------------------------------------
\* pandas: df.nlargest(n, 'm')
\* ------------------------------------------------------------------------
\* The rows in descending order of col, equal cells in table order (keep =
\* 'first').
RECURSIVE SortDescending(_, _)
SortDescending(rows, col) ==
    IF Len(rows) = 0 THEN << >>
    ELSE LET first == MinOf({ i \in 1..Len(rows) :
                                \A j \in 1..Len(rows) : rows[j][col] <= rows[i][col] })
         IN << rows[first] >>
            \o SortDescending(SubSeq(rows, 1, first - 1) \o SubSeq(rows, first + 1, Len(rows)), col)

\* n = top_n if top_n else 10
TopNCount(top_n) == IF TruthyInt(top_n) THEN Val(top_n) ELSE 10

\* nlargest refuses a column of dtype object (labels; the columns of a sheet
\* without rows may be read as such); for n <= 0 it selects nothing;
\* otherwise the filled cells come first in descending order, the rows with
\* an empty cell after them, and the first n rows are kept.
nlargest(table, n, col) ==
    IF ~IsNumeric(col)
    THEN { Raise("TypeError", "") }
    ELSE IF Len(table.rows) = 0
    THEN { Raise("TypeError", ""), Value(DataFrame(table.columns, << >>), "") }
    ELSE IF n <= 0
    THEN { Value(DataFrame(table.columns, << >>), "") }
    ELSE LET dropped == SelectSeq(table.rows, LAMBDA r : ~IsNull(r, col))
             nan_index == SelectSeq(table.rows, LAMBDA r : IsNull(r, col))
             ordered == SortDescending(dropped, col) \o nan_index
         IN { Value(DataFrame(table.columns,
                              SubSeq(ordered, 1, IF n < Len(ordered) THEN n ELSE Len(ordered))),
                    "") }

\* ------------------------------------------------------------------------
\* pandas: pd.to_datetime(errors='coerce'), set_index, resample('M').mean()
\* ------------------------------------------------------------------------
\* Cells of a time column that hold a date.
Dates == { "2024-01-05", "2024-01-20", "2024-03-03" }

\* The month pd.to_datetime(cell, errors='coerce') falls in; 0 stands for
\* NaT, which an empty cell and a text that is no date give.
MonthOf(cell) ==
    CASE cell \in { "2024-01-05", "2024-01-20" } -> 1
      [] cell = "2024-03-03" -> 3
      [] OTHER -> 0

\* The label of a month's bucket: its last day.
MonthEnd(m) ==
    CASE m = 1 -> "2024-01-31"
      [] m = 2 -> "2024-02-29"
      [] OTHER -> "2024-03-31"

\* df.set_index(tf).resample('M')[m].mean().reset_index(): one row per month
\* from the first to the last date of the column, the months without rows
\* included; rows whose index is NaT are in no bucket.  With no date at all
\* in a column that has rows the call raises or gives no bucket.
resample_mean(table, time_field, metric) ==
    LET dated == SelectSeq(table.rows, LAMBDA r : MonthOf(r[time_field]) # 0)
        months == { MonthOf(dated[i][time_field]) : i \in 1..Len(dated) }
        first == MinOf(months)
        last == CHOOSE m \in months : \A o \in months : o <= m
        empty == Value(DataFrame(<< time_field, metric >>, << >>), "")
    IN IF Len(table.rows) = 0 THEN { empty }
       ELSE IF Len(dated) = 0 THEN { Raise("ValueError", ""), empty }
       ELSE { Value(DataFrame(<< time_field, metric >>,
                [k \in 1..(last - first + 1) |->
                   (time_field :> MonthEnd(first + k - 1))
                   @@ (metric :> Aggregate("mean",
                                   SelectSeq(dated, LAMBDA r :
                                       MonthOf(r[time_field]) = first + k - 1),
                                   metric))]), "") }

\* Sheets with the time column time_field, holding dates, a text that is no
\* date or empty cells, and the numeric column metric.
TrendTables(time_field, metric) ==
    { [columns |-> << time_field, metric >>, rows |-> r] :
        r \in { q \in SeqsOf({ (time_field :> t) @@ (metric :> v) :
                                 t \in Dates \cup { "a", Null }, v \in Numbers },
                             0, MaxRows) :
                  ForwardFilled(q, << time_field, metric >>)
                  /\ NoEmptyLine(q, << time_field, metric >>) } }

\* ------------------------------------------------------------------------
\* exec() of the text generate_analysis_code(file_path, intent), when
\* preprocess_excel(file_path) returns table: the outcomes it may have
\* ------------------------------------------------------------------------
Missing(names, table) == \E n \in names : n \notin RangeOf(table.columns)

exec_sum_avg(analysis_type, metric, group_by, table) ==
    IF ~Truthy(metric)
    THEN { Value(NoResult, "") }
    ELSE IF Missing(RangeOf(group_by) \cup { Val(metric) }, table)
    THEN { Raise("KeyError", "") }
    ELSE IF ~IsNumeric(Val(metric))
    THEN Unmodelled
    ELSE LET agg_func == IF analysis_type = "sum" THEN "sum" ELSE "mean"
         IN IF TruthyList(group_by)
            THEN IF Val(metric) \in RangeOf(group_by) \/ ~NoDup(group_by)
                 THEN { Raise("ValueError", "") }
                 ELSE { Value(GroupbyAggregate(table, group_by, Val(metric), agg_func), "") }
            ELSE LET name == Val(metric) \o << "_" >> \o (IF agg_func = "sum"
                                                         THEN << "s", "u", "m" >>
                                                         ELSE << "m", "e", "a", "n" >>)
                 IN { Value(DataFrame(<< name >>,
                        << [c \in { name } |-> Aggregate(agg_func, table.rows, Val(metric))] >>), "") }

exec_generated(intent, table) ==
    CASE intent.analysis_type \in { "sum", "avg" } ->
             exec_sum_avg(intent.analysis_type, intent.metric, intent.group_by, table)
      [] intent.analysis_type = "trend" ->
             IF ~Truthy(intent.time_field) THEN { Value(NoResult, "") }
             ELSE IF Missing({ Val(intent.time_field) }, table) THEN { Raise("KeyError", "") }
             ELSE IF /\ Truthy(intent.metric)
                     /\ other_group_cols(intent.group_by, intent.time_field) = << >>
                     /\ ~IsNumeric(Val(intent.time_field))
             THEN IF Val(intent.metric) = Val(intent.time_field)
                     \/ Missing({ Val(intent.metric) }, table)
                  THEN { Raise("KeyError", "") }
                  ELSE IF ~IsNumeric(Val(intent.metric)) THEN Unmodelled
                  ELSE resample_mean(table, Val(intent.time_field), Val(intent.metric))
             ELSE Unmodelled
      [] intent.analysis_type = "topn" ->
             IF ~Truthy(intent.metric) THEN { Value(NoResult, "") }
             ELSE IF Missing({ Val(intent.metric) }, table) THEN { Raise("KeyError", "") }
             ELSE nlargest(table, TopNCount(intent.top_n), Val(intent.metric))
      [] intent.analysis_type = "groupby" ->
             IF ~TruthyList(intent.group_by) THEN { Value(DataFrame(table.columns, table.rows), "") }
             ELSE IF Missing(RangeOf(intent.group_by), table) THEN { Raise("KeyError", "") }
             ELSE Unmodelled
      [] intent.analysis_type = "sort" ->
             IF ~Truthy(intent.metric) THEN { Value(DataFrame(table.columns, table.rows), "") }
             ELSE IF Missing({ Val(intent.metric) }, table) THEN { Raise("KeyError", "") }
             ELSE Unmodelled
      [] OTHER -> { Value(DataFrame(table.columns, table.rows), "") }

\* exec() of a body posted to /analyze/execute.
exec_request(code) ==
    LET text == code[1].t
    IN CASE text = "result = undefined_variable + 1" -> Raise("NameError", "")
         [] text = "print('hi'); result = undefined_variable" -> Raise("NameError", "hi\n")
         [] text = "print('hi')" -> Value(NoResult, "hi\n")
         [] text = "result = 42" -> Value(Scalar("int"), "")
         [] text = "result = pd.DataFrame({'x': range(60)})" ->
                Value(DataFrame(<< << "x" >> >>,
                                [i \in 1..(PreviewLimit + 10) |-> [c \in { << "x" >> } |-> i - 1]]), "")
         [] text = "result = pd.Series(range(60))" ->
                Value(Series(None, [i \in 1..(PreviewLimit + 10) |->
                                      [index |-> i - 1, value |-> i - 1]]), "")
         [] text = "result = pd.Series([1, 2], index=['a', 'a'], name='v')" ->
                Value(Series(Some(<< "v" >>),
                             << [index |-> "a", value |-> 1], [index |-> "a", value |-> 2] >>), "")
         [] OTHER -> Value(NoResult, "")

\* ------------------------------------------------------------------------
\* code_runner.run_analysis_code
\* ------------------------------------------------------------------------
\* head without the limit: the whole table is the preview.
head_NoLimit(rows, n) == rows

\* DataFrame.head(n), Series.head(n)
head(rows, n) == SubSeq(rows, 1, IF Len(rows) < n THEN Len(rows) ELSE n)

\* DataFrame.to_dict(orient="records"): the list of the rows.
to_records(rows) == rows

\* Series.to_dict(): index label -> value, the last value of a repeated label.
to_dict(rows) ==
    [l \in { rows[i].index : i \in 1..Len(rows) } |->
        rows[CHOOSE i \in 1..Len(rows) :
               /\ rows[i].index = l
               /\ \A j \in (i + 1)..Len(rows) : rows[j].index # l].value]

\* process_result that converts a value of another type instead of refusing it.
process_result_Converts(result) ==
    CASE result.type = "NoneType" ->
             [result_preview |-> None, columns |-> None, error |-> None]
      [] result.type = "DataFrame" ->
             [result_preview |-> Some(to_records(head(result.rows, PreviewLimit))),
              columns |-> Some(result.columns),
              error |-> None]
      [] result.type = "Series" ->
             [result_preview |-> Some(to_dict(head(result.rows, PreviewLimit))),
              columns |-> Some(<< IF Truthy(result.name) THEN Val(result.name)
                                  ELSE << "v", "a", "l", "u", "e" >> >>),
              error |-> None]
      [] OTHER ->
             [result_preview |-> Some(<< result.type >>),
              columns |-> Some(<< << "v", "a", "l", "u", "e" >> >>),
              error |-> None]

\* The processing of `result` after exec() has returned.
process_result(result) ==
    CASE result.type = "NoneType" ->
             [result_preview |-> None, columns |-> None, error |-> None]
      [] result.type = "DataFrame" ->
             [result_preview |-> Some(to_records(head(result.rows, PreviewLimit))),
              columns |-> Some(result.columns),
              error |-> None]
      [] result.type = "Series" ->
             [result_preview |-> Some(to_dict(head(result.rows, PreviewLimit))),
              columns |-> Some(<< IF Truthy(result.name) THEN Val(result.name)
                                  ELSE << "v", "a", "l", "u", "e" >> >>),
              error |-> None]
      [] OTHER ->
             [result_preview |-> None,
              columns |-> None,
              error |-> Some(<< "Result is not a DataFrame or Series, got ", result.type >>)]

\* run_analysis_code(code, globals_extra), when exec(code, ...) has the given
\* outcome.
run_analysis_code(code, outcome) ==
    IF outcome.kind = "raise"
    THEN [result_preview |-> None,
          columns |-> None,
          stdout |-> outcome.stdout,
          error |-> Some(<< outcome.exc, ": " >>)]
    ELSE LET r == process_result(outcome.result)
         IN [result_preview |-> r.result_preview,
             columns |-> r.columns,
             stdout |-> outcome.stdout,
             error |-> r.error]


\* ------------------------------------------------------------------------
\* The pipeline of /analyze and of run_analysis_pipeline
\* ------------------------------------------------------------------------
NoFileCode ==
    Words(<< "#", "Error:", "No", "matching", "file", "found", "for", "the", "given", "question" >>)

\* `if target_file:` ... else ... (a file name is never the empty string)
PlanCode(intent, match_result) ==
    IF ~IsNone(match_result.file_name)
    THEN generate_analysis_code(file_path_of(Val(match_result.file_name)), intent)
    ELSE NoFileCode

\* The sheets the pipeline is run on: empty, of one row, or longer than the
\* preview.
PipelineTables(cols) == { t \in Tables(cols) : Len(t.rows) <= 1 \/ Len(t.rows) > PreviewLimit }

\* What exec() of the pipeline's text may do, the sheet of the selected file
\* holding rows under the columns the disk has for it; preprocess_excel
\* raises on a file that is opened for writing and holds no workbook yet.
PipelineOutcomes(intent, match_result, d) ==
    IF IsNone(match_result.file_name)
    THEN { Value(NoResult, "") }
    ELSE IF Val(match_result.file_name) \in opened
    THEN { Raise("BadZipFile", "") }
    ELSE UNION { exec_generated(intent, table) :
                   table \in PipelineTables(d[Val(match_result.file_name)]) }

\* The value the try block returns; kind, match_result and outcome are not
\* keys of the response, they record which handler answered, what the matcher
\* returned and what exec() did.
Pipeline(intent, ix, outcome) ==
    LET match_result == match_excel_file(intent, ix)
        code == PlanCode(intent, match_result)
        execution_result == run_analysis_code(code, outcome)
    IN [kind |-> "analysis",
        intent |-> intent,
        code |-> code,
        target_file |-> match_result.file_name,
        used_columns |-> extract_used_columns(code),
        result_preview |-> execution_result.result_preview,
        columns |-> execution_result.columns,
        stdout |-> execution_result.stdout,
        error |-> execution_result.error,
        match_result |-> match_result,
        outcome |-> outcome]

Init ==
    /\ disk = [f \in {} |-> << >>]
    /\ index = None
    /\ pc = "idle"
    /\ response = [kind |-> "none"]
    /\ executed = << >>
    /\ opened = {}
    /\ audio_buffer = << >>
    /\ processing = FALSE
    /\ timeout_task = "None"
    /\ proc = [c \in Callers |-> Outside]
    /\ sent = << >>
    /\ quiet = FALSE
    /\ heard = 0
    /\ transcribed = {}
    /\ cleared = {}
    /\ sys_stdout = 0
    /\ wpc = [w \in Workers |-> "idle"]
    /\ old_stdout = [w \in Workers |-> 0]
    /\ stdout_capture = [w \in Workers |-> 0]
    /\ streams = << >>
    /\ stdout_content = [w \in Workers |-> [call |-> 0, text |-> << >>]]

\* main.upload_excel
upload_excel(f, cols, order) ==
    /\ pc = "idle"
    /\ disk' = [g \in DOMAIN disk \cup {f} |-> IF g = f THEN cols ELSE disk[g]]
    /\ index' = Some(build_excel_index(disk', order))
    /\ pc' = "done"
    /\ response' = [kind |-> "upload", file_name |-> f, columns |-> cols]
    /\ UNCHANGED executed
    /\ opened' = opened \ { f }
    /\ UNCHANGED << speech_vars, stdio_vars >>

\* main.upload_excel up to `await file.read()`: open(file_path, "wb") has
\* created or emptied the file, and the event loop is free for other requests
\* until the body is read.
upload_open(f) ==
    /\ pc = "idle"
    /\ f \notin opened
    /\ opened' = opened \cup { f }
    /\ disk' = [g \in DOMAIN disk \cup {f} |-> IF g = f THEN << >> ELSE disk[g]]
    /\ UNCHANGED << index, pc, response, executed, speech_vars, stdio_vars >>

\* main.upload_excel from f.write(content) on: the file is written, the
\* index is rebuilt from the files that preprocess and saved.
upload_write(f, cols, order) ==
    /\ f \in opened
    /\ upload_excel(f, cols, order)

\* main.analyze_plan
analyze_plan(raw) ==
    /\ pc = "idle"
    /\ response' = IF load_index_call(index).kind = "raise"
                   THEN [kind |-> "raised", exc |-> load_index_call(index).exc]
                   ELSE [kind |-> "plan",
                         intent |-> parse_intent(raw),
                         match_result |-> match_excel_file(parse_intent(raw),
                                                           load_index_call(index).result)]
    /\ pc' = "done"
    /\ UNCHANGED << disk, index, executed >>
    /\ UNCHANGED << opened, speech_vars, stdio_vars >>

\* load_index raised FileNotFoundError: the handlers' except branch is taken.
FallbackTaken(ix) ==
    /\ load_index_call(ix).kind = "raise"
    /\ load_index_call(ix).exc = "FileNotFoundError"

\* The handlers' `try: index = load_index(INDEX_PATH)` with its
\* `except FileNotFoundError: index = build_excel_index(DATA_DIR);
\* save_index(index, INDEX_PATH)`: the catalog the handler goes on with and
\* the index file it leaves, for one listing order of the directory.
load_or_build(ix, d, order) ==
    IF FallbackTaken(ix)
    THEN [index |-> build_excel_index(d, order),
          file |-> Some(build_excel_index(d, order))]
    ELSE [index |-> load_index_call(ix).result, file |-> ix]

\* The listing orders the handler depends on: those of the directory when the
\* index is built, none otherwise.
BuildOrders(ix, d) == IF FallbackTaken(ix) THEN Orders(DOMAIN d) ELSE { << >> }

\* main.analyze (and main.run_analysis_pipeline, which has the same body), when
\* parse_intent returns the NL model's answer raw. (Another exception out of
\* load_index is answered by analyze_error.)
analyze(raw) ==
    /\ pc = "idle"
    /\ load_index_call(index).kind = "value" \/ FallbackTaken(index)
    /\ \E order \in BuildOrders(index, disk) :
          /\ index' = load_or_build(index, disk, order).file
          /\ \E outcome \in PipelineOutcomes(
                                parse_intent(raw),
                                match_excel_file(parse_intent(raw),
                                                 load_or_build(index, disk, order).index),
                                disk) :
                response' = Pipeline(parse_intent(raw),
                                     load_or_build(index, disk, order).index, outcome)
    /\ executed' = << response'.code >>
    /\ pc' = "done"
    /\ UNCHANGED disk
    /\ UNCHANGED << opened, speech_vars, stdio_vars >>

\* main.list_files: the files of the catalog with their columns.
list_files ==
    /\ pc = "idle"
    /\ load_index_call(index).kind = "value" \/ FallbackTaken(index)
    /\ \E order \in BuildOrders(index, disk) :
          /\ index' = load_or_build(index, disk, order).file
          /\ response' = [kind |-> "files",
                          files |-> load_or_build(index, disk, order).index]
    /\ pc' = "done"
    /\ UNCHANGED << disk, executed >>
    /\ UNCHANGED << opened, speech_vars, stdio_vars >>

\* analyze_error answering with the error and the code only.
analyze_error_TwoKeys ==
    /\ pc = "idle"
    /\ \E error_msg \in ParseErrors :
          response' = [kind |-> "error",
                       code |-> Words(<< "#", "Error:" >>) \o Tpl(<< " " >>)
                                  \o << [t |-> error_msg, o |-> "intent"] >>,
                       error |-> Some(<< error_msg >>)]
    /\ pc' = "done"
    /\ UNCHANGED << disk, index, executed >>
    /\ UNCHANGED << opened, speech_vars, stdio_vars >>

\* main.analyze, when parse_intent raises: the except branch answers, as it
\* does for any Exception raised in the try block.
analyze_error ==
    /\ pc = "idle"
    /\ \E error_msg \in ParseErrors :
          response' = [kind |-> "error",
                       intent |-> << >>,
                       code |-> Words(<< "#", "Error:" >>) \o Tpl(<< " " >>)
                                  \o << [t |-> error_msg, o |-> "intent"] >>,
                       target_file |-> None,
                       used_columns |-> << >>,
                       result_preview |-> None,
                       columns |-> None,
                       stdout |-> "",
                       error |-> Some(<< error_msg >>)]
    /\ pc' = "done"
    /\ UNCHANGED << disk, index, executed >>
    /\ UNCHANGED << opened, speech_vars, stdio_vars >>

\* main.analyze_execute
analyze_execute(code) ==
    /\ pc = "idle"
    /\ executed' = << code >>
    /\ response' = [kind |-> "execute",
                    code |-> code,
                    outcome |-> exec_request(code),
                    result |-> run_analysis_code(code, exec_request(code))]
    /\ pc' = "done"
    /\ UNCHANGED << disk, index >>
    /\ UNCHANGED << opened, speech_vars, stdio_vars >>

\* The client has received the response; the server is ready for a request.
Return ==
    /\ pc = "done"
    /\ pc' = "idle"
    /\ response' = [kind |-> "none"]
    /\ executed' = << >>
    /\ UNCHANGED << disk, index >>
    /\ UNCHANGED << opened, speech_vars, stdio_vars >>

Upload ==
    /\ pc = "idle"
    /\ \E f \in Files, cols \in ColumnLists :
          \E order \in Orders(DOMAIN disk \cup {f}) : upload_excel(f, cols, order)

Next ==
    \/ Upload
    \/ pc = "idle" /\ \E raw \in PlanIntents : analyze_plan(raw)
    \/ pc = "idle" /\ \E raw \in RawIntents : analyze(raw)
    \/ analyze_error
    \/ pc = "idle" /\ \E code \in RequestCodes : analyze_execute(code)
    \/ Return

Spec == Init /\ [][Next]_vars

\* The /analyze pipeline over a catalog of one dataset.
AnalyzeIntents == { r \in RawIntents : r.top_n = None /\ r.time_field # Some(nEmpty) }

NextAnalyze ==
    \/ pc = "idle" /\ \E cols \in ColumnLists : upload_excel("a.xlsx", cols, << "a.xlsx" >>)
    \/ pc = "idle" /\ \E raw \in AnalyzeIntents : analyze(raw)
    \/ analyze_error
    \/ Return

SpecAnalyze == Init /\ [][NextAnalyze]_vars

\* ------------------------------------------------------------------------
\* main.websocket_speech: one connection
\* ------------------------------------------------------------------------
MaxChunks == 2

http_vars == << disk, index, pc, response, executed, opened >>

\* The messages process_final_transcript has to send: the transcript, then
\* the status and the analysis result when the text can be analysed, or the
\* error when it cannot (run_analysis_pipeline raises nothing: a failure of
\* the pipeline is the `error` field of the analysis result).
Paths ==
    { << "final_transcript", "status", "analysis_result" >>,
      << "final_transcript", "error" >> }

\* process_final_transcript runs from a point where todo is left to send,
\* up to the first `await send_message(...)` that suspends the task, or to its
\* end when none does: then the buffer is reset and `finally` clears the flag.
Advance(c, todo, cancelled) ==
    \E j \in 0..Len(todo) :
        IF j = Len(todo)
        THEN /\ sent' = sent \o todo
             /\ audio_buffer' = << >>
             /\ processing' = FALSE
             /\ proc' = [proc EXCEPT ![c] = Outside]
        ELSE /\ sent' = sent \o SubSeq(todo, 1, j + 1)
             /\ processing' = TRUE
             /\ proc' = [proc EXCEPT ![c] = [stage |-> "suspended",
                                             todo |-> SubSeq(todo, j + 2, Len(todo)),
                                             cancelled |-> cancelled]]
             /\ UNCHANGED audio_buffer

\* process_final_transcript without the test of the flag in its guard.
process_final_transcript_NoFlagCheck(c) ==
    /\ Len(audio_buffer) > 0
    /\ proc[c].stage = "out"
    /\ timeout_task' = "None"
    /\ transcribed' = transcribed \cup RangeOf(audio_buffer)
    /\ \E todo \in Paths : Advance(c, todo, c = "timeout" /\ timeout_task = "sleeping")

\* process_final_transcript leaving the timeout task alone.
process_final_transcript_NoCancel(c) ==
    /\ ~( processing \/ Len(audio_buffer) = 0 )
    /\ proc[c].stage = "out"
    /\ timeout_task' = IF c = "timeout" THEN "None" ELSE timeout_task
    /\ transcribed' = transcribed \cup RangeOf(audio_buffer)
    /\ \E todo \in Paths : Advance(c, todo, FALSE)

\* process_final_transcript called by c, from its guard to its first
\* suspension: the flag is set, the timeout task is cancelled (the caller
\* itself, when the timeout task calls: the CancelledError is then thrown
\* into it where it next suspends), the buffer is transcribed.
process_final_transcript(c) ==
    /\ ~( processing \/ Len(audio_buffer) = 0 )
    /\ proc[c].stage = "out"
    /\ timeout_task' = "None"
    /\ transcribed' = transcribed \cup RangeOf(audio_buffer)
    /\ \E todo \in Paths : Advance(c, todo, c = "timeout" /\ timeout_task = "sleeping")

\* The task of caller c runs again after a send that suspended it: a
\* cancelled task leaves through `finally` with CancelledError, the buffer
\* as it is; another goes on.
resume(c) ==
    /\ proc[c].stage = "suspended"
    /\ IF proc[c].cancelled
       THEN /\ processing' = FALSE
            /\ proc' = [proc EXCEPT ![c] = Outside]
            /\ UNCHANGED << audio_buffer, sent >>
       ELSE Advance(c, proc[c].todo, FALSE)
    /\ UNCHANGED << timeout_task, quiet, heard, transcribed, cleared, http_vars, stdio_vars >>

\* The receive loop gets an audio chunk.
receive_bytes ==
    /\ proc["receive"].stage = "out"
    /\ heard < MaxChunks
    /\ heard' = heard + 1
    /\ audio_buffer' = Append(audio_buffer, heard + 1)
    /\ quiet' = FALSE
    /\ timeout_task' = "sleeping"
    /\ UNCHANGED << processing, proc, sent, transcribed, cleared, http_vars, stdio_vars >>

\* The receive loop gets {"type": "end"}.
receive_end ==
    /\ proc["receive"].stage = "out"
    /\ process_final_transcript("receive")
    /\ UNCHANGED << quiet, heard, cleared, http_vars, stdio_vars >>

\* The receive loop gets {"type": "reset"}.
receive_reset ==
    /\ proc["receive"].stage = "out"
    /\ Len(audio_buffer) > 0 \/ timeout_task # "None"
    /\ audio_buffer' = << >>
    /\ cleared' = cleared \cup RangeOf(audio_buffer)
    /\ timeout_task' = "None"
    /\ UNCHANGED << processing, proc, sent, quiet, heard, transcribed, http_vars, stdio_vars >>

\* silence_timeout passes without a chunk.
silence ==
    /\ heard > 0
    /\ ~quiet
    /\ quiet' = TRUE
    /\ UNCHANGED << audio_buffer, processing, timeout_task, proc, sent, heard, transcribed,
                    cleared, http_vars, stdio_vars >>

\* check_silence_timeout wakes from its sleep and finds the silence.
check_silence_timeout ==
    /\ timeout_task = "sleeping"
    /\ ~processing
    /\ quiet /\ Len(audio_buffer) > 0
    /\ process_final_transcript("timeout")
    /\ UNCHANGED << quiet, heard, cleared, http_vars, stdio_vars >>

\* check_partial_transcript sends a partial transcript; of several in a row
\* the log keeps one.
check_partial_transcript ==
    /\ ~( processing \/ Len(audio_buffer) = 0 )
    /\ ~quiet
    /\ IF Len(sent) = 0 THEN TRUE ELSE sent[Len(sent)] # "partial_transcript"
    /\ sent' = Append(sent, "partial_transcript")
    /\ UNCHANGED << audio_buffer, processing, timeout_task, proc, quiet, heard, transcribed,
                    cleared, http_vars, stdio_vars >>

NextSpeech ==
    \/ receive_bytes
    \/ receive_end
    \/ receive_reset
    \/ silence
    \/ check_silence_timeout
    \/ check_partial_transcript
    \/ \E c \in Callers : resume(c)

SpecSpeech == Init /\ [][NextSpeech]_vars

\* The tasks of the event loop are run, and time passes.
SpecSpeechFair ==
    /\ SpecSpeech
    /\ WF_vars(check_silence_timeout)
    /\ WF_vars(silence)
    /\ \A c \in Callers : WF_vars(resume(c))

\* ------------------------------------------------------------------------
\* code_runner.run_analysis_code and the process-wide sys.stdout, with calls
\* made on the threads of a worker pool
\* ------------------------------------------------------------------------
MaxCalls == 3

\* stdout_capture = io.StringIO(); old_stdout = sys.stdout
run_save(w) ==
    /\ wpc[w] = "idle"
    /\ Len(streams) < MaxCalls
    /\ streams' = Append(streams, << >>)
    /\ stdout_capture' = [stdout_capture EXCEPT ![w] = Len(streams) + 1]
    /\ old_stdout' = [old_stdout EXCEPT ![w] = sys_stdout]
    /\ wpc' = [wpc EXCEPT ![w] = "saved"]
    /\ UNCHANGED << sys_stdout, stdout_content, http_vars, speech_vars >>

\* sys.stdout = stdout_capture
run_redirect(w) ==
    /\ wpc[w] = "saved"
    /\ sys_stdout' = stdout_capture[w]
    /\ wpc' = [wpc EXCEPT ![w] = "redirected"]
    /\ UNCHANGED << old_stdout, stdout_capture, streams, stdout_content, http_vars, speech_vars >>

\* exec(code, ...): the code prints or not, and ends or raises; print writes
\* to the stream that sys.stdout is at that moment.
run_exec(w, prints) ==
    /\ wpc[w] = "redirected"
    /\ streams' = IF prints /\ sys_stdout # 0
                  THEN [streams EXCEPT ![sys_stdout] = Append(@, stdout_capture[w])]
                  ELSE streams
    /\ wpc' = [wpc EXCEPT ![w] = "executed"]
    /\ UNCHANGED << sys_stdout, old_stdout, stdout_capture, stdout_content, http_vars,
                    speech_vars >>

\* finally: sys.stdout = old_stdout; stdout_content = stdout_capture.getvalue()
\* and the return of the dictionary.
run_restore(w) ==
    /\ wpc[w] = "executed"
    /\ sys_stdout' = old_stdout[w]
    /\ stdout_content' = [stdout_content EXCEPT
                              ![w] = [call |-> stdout_capture[w],
                                      text |-> streams[stdout_capture[w]]]]
    /\ wpc' = [wpc EXCEPT ![w] = "idle"]
    /\ UNCHANGED << old_stdout, stdout_capture, streams, http_vars, speech_vars >>

NextStdio ==
    \/ \E w \in Workers : run_save(w)
    \/ \E w \in Workers : run_redirect(w)
    \/ \E w \in Workers, prints \in BOOLEAN : run_exec(w, prints)
    \/ \E w \in Workers : run_restore(w)

SpecStdio == Init /\ [][NextStdio]_vars

\* The index file is lost, or is left with a text that is no JSON document
\* (a save cut short, a damaged disk).
index_lost(ix) ==
    /\ pc = "idle"
    /\ index # ix
    /\ index' = ix
    /\ UNCHANGED << disk, pc, response, executed, opened, speech_vars, stdio_vars >>

\* /analyze/plan requests on an index file that may be lost or damaged.
NextLoad ==
    \/ pc = "idle" /\ \E cols \in ColumnLists : upload_excel("a.xlsx", cols, << "a.xlsx" >>)
    \/ \E ix \in { None, Garbled } : index_lost(ix)
    \/ pc = "idle" /\ \E raw \in PlanIntents : analyze_plan(raw)
    \/ Return

SpecLoad == Init /\ [][NextLoad]_vars

\* /analyze and /list_files requests on an index file that may be missing.
NextBuild ==
    \/ pc = "idle" /\ \E cols \in ColumnLists : upload_excel("a.xlsx", cols, << "a.xlsx" >>)
    \/ index_lost(None)
    \/ pc = "idle" /\ \E raw \in AnalyzeIntents : analyze(raw)
    \/ list_files
    \/ Return

SpecBuild == Init /\ [][NextBuild]_vars

\* Uploads of one file that overlap with /analyze requests.
NextIngest ==
    \/ upload_open("a.xlsx")
    \/ pc = "idle" /\ \E cols \in ColumnLists : upload_write("a.xlsx", cols, << "a.xlsx" >>)
    \/ pc = "idle" /\ \E raw \in AnalyzeIntents : analyze(raw)
    \/ Return

SpecIngest == Init /\ [][NextIngest]_vars

\* The matcher alone: uploads and /analyze/plan requests.
NextMatch ==
    \/ Upload
    \/ pc = "idle" /\ \E raw \in PlanIntents : analyze_plan(raw)
    \/ Return

SpecMatch == Init /\ [][NextMatch]_vars

\* generate_analysis_code and run_analysis_code chained on a sheet, as
\* TestCodeExecution does.
run_plan(intent, table) ==
    /\ pc = "idle"
    /\ \E outcome \in exec_generated(intent, table) :
          response' = [kind |-> "run",
                       intent |-> intent,
                       table |-> table,
                       outcome |-> outcome,
                       result |-> run_analysis_code(
                                    generate_analysis_code(file_path_of("a.xlsx"), intent),
                                    outcome)]
    /\ executed' = << generate_analysis_code(file_path_of("a.xlsx"), intent) >>
    /\ pc' = "done"
    /\ UNCHANGED << disk, index >>
    /\ UNCHANGED << opened, speech_vars, stdio_vars >>

\* Intents and sheets the runner is applied to.
RunIntents ==
    { r \in RawIntents :
        /\ r.metric # Some(nEmpty)
        /\ r.top_n = None
        /\ \/ r.time_field = None
           \/ r.analysis_type = "trend" /\ r.time_field = Some(nP) }

\* Sheets with a label column and a numeric column, and sheets of at most
\* one row that lack the numeric column.
RunTables == Tables(<< nP, ns >>) \cup { t \in Tables(<< nP >>) : Len(t.rows) <= 1 }

NextRun ==
    \/ pc = "idle" /\ \E intent \in RunIntents, table \in RunTables : run_plan(intent, table)
    \/ pc = "idle" /\ \E code \in RequestCodes : analyze_execute(code)
    \/ Return

SpecRun == Init /\ [][NextRun]_vars

\* topn plans with a metric, on sheets with a label column and a numeric
\* column that may have empty cells.
TopNIntents ==
    { [analysis_type |-> "topn", metric |-> Some(m), group_by |-> << >>,
       time_field |-> None, top_n |-> t] :
        m \in { ns, nP }, t \in TopNs \cup { Some(1) } }

NextTopN ==
    \/ pc = "idle" /\ \E intent \in TopNIntents, table \in NullableTables(<< nP, ns >>) :
                        run_plan(intent, table)
    \/ Return

SpecTopN == Init /\ [][NextTopN]_vars

\* trend plans with a metric and no grouping but, at most, the time field
\* itself.
TrendIntents ==
    { [analysis_type |-> "trend", metric |-> Some(ns), group_by |-> g,
       time_field |-> Some(nP), top_n |-> None] : g \in { << >>, << nP >> } }

NextTrend ==
    \/ pc = "idle" /\ \E intent \in TrendIntents, table \in TrendTables(nP, ns) :
                        run_plan(intent, table)
    \/ Return

SpecTrend == Init /\ [][NextTrend]_vars

\* The generator alone, applied to intents as the NL model may answer them
\* (generate_analysis_code does not ask that parse_intent has seen them).
compile(intent, f) ==
    /\ pc = "idle"
    /\ response' = [kind |-> "code",
                    intent |-> intent,
                    code |-> generate_analysis_code(file_path_of(f), intent)]
    /\ pc' = "done"
    /\ UNCHANGED << disk, index, executed >>
    /\ UNCHANGED << opened, speech_vars, stdio_vars >>

NextCompile ==
    \/ pc = "idle" /\ \E intent \in RawIntents, f \in Files : compile(intent, f)
    \/ Return

SpecCompile == Init /\ [][NextCompile]_vars

\* ------------------------------------------------------------------------
\* Vocabulary of the properties
\* ------------------------------------------------------------------------
\* The last handler ran the matcher and its response carries the result.
Matched == pc = "done" /\ response.kind \in { "plan", "analysis" }

\* The catalog that handler read: no handler that matches writes the index.
Catalog == load_index(index)

CatalogNames == { Catalog[k].file_name : k \in 1..Len(Catalog) }
ColumnsOf(f) == UNION { RangeOf(Catalog[k].columns) : k \in { j \in 1..Len(Catalog) : Catalog[j].file_name = f } }

\* Name a matches column c: equal after normalization, or one normalized
\* form contains the other.
NameMatches(a, c) ==
    \/ normalize_string(a) = normalize_string(c)
    \/ IsSubstr(normalize_string(a), normalize_string(c))
    \/ IsSubstr(normalize_string(c), normalize_string(a))

\* The intent fields the score counts: the metric if present, every group_by
\* entry, the time_field if present (present: neither null nor empty).
FieldsConsidered(intent) ==
    (IF Truthy(intent.metric) THEN 1 ELSE 0)
    + Len(intent.group_by)
    + (IF Truthy(intent.time_field) THEN 1 ELSE 0)

\* How many of those fields name (fuzzily) a column among cols.
FieldHits(v, cols) == IF Len(v) > 0 /\ \E c \in cols : NameMatches(v, c) THEN 1 ELSE 0

RECURSIVE SumHits(_, _)
SumHits(vs, cols) ==
    IF Len(vs) = 0 THEN 0 ELSE FieldHits(Head(vs), cols) + SumHits(Tail(vs), cols)

MatchedFieldCount(intent, cols) ==
    (IF Truthy(intent.metric) THEN FieldHits(Val(intent.metric), cols) ELSE 0)
    + SumHits(intent.group_by, cols)
    + (IF Truthy(intent.time_field) THEN FieldHits(Val(intent.time_field), cols) ELSE 0)

\* The number of matches the loop body counts for catalog entry k (0 for an
\* entry the metric check skips).
EntryMatches(k) ==
    LET r == ScoreFile(response.intent, Catalog[k].columns)
    IN IF r.skip THEN 0 ELSE r.matches

\* ------------------------------------------------------------------------
\* Properties of the matcher
\* ------------------------------------------------------------------------
\* C1: when the intent's metric is set and matches no column of any dataset
\* (neither by normalized equality nor by normalized containment either way),
\* the matcher returns file_name None and score 0.0, whatever group_by and
\* time_field match.
C1_MetricAbsentNoDataset ==
    ( /\ Matched
      /\ ~IsNone(response.intent.metric)
      /\ \A f \in CatalogNames : \A c \in ColumnsOf(f) :
            ~NameMatches(Val(response.intent.metric), c) )
    => /\ IsNone(response.match_result.file_name)
       /\ response.match_result.score = ZeroScore

\* A dataset is cataloged whose column the group_by entry names, the metric
\* names no column, and the matcher has answered with no dataset.
C1_Witness ==
    /\ Matched
    /\ response.intent.metric = Some(ns)
    /\ response.intent.group_by = << nP >>
    /\ \E f \in CatalogNames : ColumnsOf(f) = { nP }
    /\ \A f \in CatalogNames : \A c \in ColumnsOf(f) : ~NameMatches(ns, c)
    /\ IsNone(response.match_result.file_name)

\* C2: for an intent with no metric, an empty group_by and no time_field the
\* matcher returns score 0.0, file_name None, empty matched_columns and
\* used_columns, and visits no entry of the catalog.
C2_NoFieldsNoScan ==
    ( /\ Matched
      /\ ~Truthy(response.intent.metric)
      /\ Len(response.intent.group_by) = 0
      /\ ~Truthy(response.intent.time_field) )
    => /\ response.match_result.score = ZeroScore
       /\ IsNone(response.match_result.file_name)
       /\ response.match_result.matched_columns = << >>
       /\ response.match_result.used_columns = << >>
       /\ response.match_result.scanned = 0

\* The matcher was given an intent without fields while the catalog holds
\* datasets with columns.
C2_Witness ==
    /\ Matched
    /\ IsNone(response.intent.metric)
    /\ Len(response.intent.group_by) = 0
    /\ IsNone(response.intent.time_field)
    /\ Len(Catalog) = 2
    /\ \A f \in CatalogNames : ColumnsOf(f) # {}

\* C3: file_name is None exactly when score is 0.0, and then matched_columns
\* and used_columns are empty; a file_name that is not None is a key of the
\* catalog and comes with a score > 0.
C3_NoneIffZeroScore ==
    Matched =>
      LET r == response.match_result
      IN /\ IsNone(r.file_name) <=> ScoreEq(r.score, ZeroScore)
         /\ IsNone(r.file_name) => r.matched_columns = << >> /\ r.used_columns = << >>
         /\ ~IsNone(r.file_name) =>
               Val(r.file_name) \in CatalogNames /\ ScoreGt(r.score, ZeroScore)

\* A dataset was selected on a partial match, next to a dataset that matches
\* nothing.
C3_Witness ==
    /\ Matched
    /\ ~IsNone(response.match_result.file_name)
    /\ ScoreGt(Score(1, 1), response.match_result.score)
    /\ \E k \in 1..Len(Catalog) : EntryMatches(k) = 0

\* C4: when some dataset scores above zero, the matcher returns the dataset
\* with the highest score, and among several with that score the first in
\* catalog order.
C4_FirstHighestWins ==
    ( Matched /\ \E k \in 1..Len(Catalog) : EntryMatches(k) > 0 )
    => LET top == { k \in 1..Len(Catalog) :
                      \A j \in 1..Len(Catalog) : EntryMatches(j) <= EntryMatches(k) }
           first == MinOf(top)
       IN /\ response.match_result.file_name = Some(Catalog[first].file_name)
          /\ ScoreEq(response.match_result.score,
                     Score(EntryMatches(first), FieldsConsidered(response.intent)))

\* Two datasets attain the same positive score and the first one was returned.
C4_Witness ==
    /\ Matched
    /\ Len(Catalog) = 2
    /\ EntryMatches(1) > 0
    /\ EntryMatches(1) = EntryMatches(2)
    /\ response.match_result.file_name = Some(Catalog[1].file_name)

\* C5: for the selected dataset the score is the number of matched intent
\* fields divided by the number of intent fields considered (the metric if
\* present, every group_by entry, the time_field if present); that number of
\* matches is len(matched_columns), and the score lies in [0, 1].
C5_ScoreIsMatchedOverConsidered ==
    ( Matched /\ ~IsNone(response.match_result.file_name) )
    => LET r == response.match_result
           cols == ColumnsOf(Val(r.file_name))
       IN /\ r.score.den = FieldsConsidered(response.intent)
          /\ r.score.den > 0
          /\ r.score.num = MatchedFieldCount(response.intent, cols)
          /\ r.score.num = Len(r.matched_columns)
          /\ r.score.num >= 0
          /\ r.score.num <= r.score.den

\* A dataset was selected with one of two intent fields matched.
C5_Witness ==
    /\ Matched
    /\ ~IsNone(response.match_result.file_name)
    /\ response.match_result.score = Score(1, 2)
    /\ Len(response.match_result.matched_columns) = 1

\* ------------------------------------------------------------------------
\* Properties of the pipeline
\* ------------------------------------------------------------------------
\* The last handler ran the whole pipeline and a dataset was selected.
Compiled ==
    pc = "done" /\ response.kind = "analysis" /\ ~IsNone(response.target_file)

SelectedColumns == ColumnsOf(Val(response.target_file))

\* The column names a program text carries: the intent values it quotes.
QuotedIntentNames(code) ==
    { Lexemes(code, r[1], r[2]) :
        r \in { x \in (1..Len(code)) \X (1..Len(code)) :
                  /\ x[1] <= x[2]
                  /\ \A k \in x[1]..x[2] : code[k].o = "intent"
                  /\ x[1] > 1 /\ x[2] < Len(code)
                  /\ code[x[1] - 1] = [t |-> "'", o |-> "tpl"]
                  /\ code[x[2] + 1] = [t |-> "'", o |-> "tpl"] } }

\* C7: no text evaluated as program code was influenced by the user or by the
\* NL model: every lexeme handed to exec() is a literal of the generator.
C7_OnlyTemplateTextEvaluated ==
    \A n \in 1..Len(executed) :
        \A k \in 1..Len(executed[n]) : executed[n][k].o = "tpl"

\* C8: every column name the compiled plan carries is a column of the dataset
\* the matcher selected.
C8_PlanCarriesCatalogNames ==
    Compiled => QuotedIntentNames(response.code) \subseteq SelectedColumns

\* C9: the columns extract_used_columns returns for the compiled plan are
\* exactly the matched_columns the matcher returned.
C9_LineageEqualsMatched ==
    Compiled => RangeOf(response.used_columns) = RangeOf(response.match_result.matched_columns)

\* C10: every name extract_used_columns returns for the compiled plan is a
\* column of the dataset the plan was compiled against, and a second call on
\* the same plan returns the same list.
C10_LineageWithinDataset ==
    Compiled =>
      /\ RangeOf(response.used_columns) \subseteq SelectedColumns
      /\ extract_used_columns(response.code) = response.used_columns

\* ------------------------------------------------------------------------
\* Properties of the lineage
\* ------------------------------------------------------------------------
\* C11: for a plan of the shape df.groupby([g1, ..., gk])['m'].<aggregation>()
\* with k >= 1, as compiled for sum, avg and groupby intents with a metric,
\* extract_used_columns returns a list that contains the metric m and every
\* group column g1..gk.
C11_LineageHasMetricAndGroups ==
    ( /\ Compiled
      /\ response.intent.analysis_type \in { "sum", "avg", "groupby" }
      /\ Truthy(response.intent.metric)
      /\ Len(response.intent.group_by) >= 1 )
    => /\ Val(response.intent.metric) \in RangeOf(response.used_columns)
       /\ RangeOf(response.intent.group_by) \subseteq RangeOf(response.used_columns)

\* The names a plan references in structural order: the metric, the group_by
\* entries in intent order, the time_field.
StructuralOrder(intent) ==
    (IF Truthy(intent.metric) THEN << Val(intent.metric) >> ELSE << >>)
    \o intent.group_by
    \o (IF Truthy(intent.time_field) THEN << Val(intent.time_field) >> ELSE << >>)

\* C12: the list extract_used_columns returns for a compiled plan holds no
\* name twice, and its names stand in structural order (metric, group_by
\* entries in intent order, time_field), each at its first occurrence.
C12_NoRepeatStructuralOrder ==
    Compiled =>
      LET u == response.used_columns
          e == StructuralOrder(response.intent)
      IN /\ NoDup(u)
         /\ \A i, j \in 1..Len(u) :
               ( i < j /\ u[i] \in RangeOf(e) /\ u[j] \in RangeOf(e) )
               => FirstPos(u[i], e) < FirstPos(u[j], e)

\* ------------------------------------------------------------------------
\* Properties of the compiled plan
\* ------------------------------------------------------------------------
\* The generator has answered for an intent of the given kinds.
Coded(kinds) ==
    pc = "done" /\ response.kind = "code" /\ response.intent.analysis_type \in kinds

\* The lines of a text: its lexemes between the line breaks.
RECURSIVE SplitLines(_)
SplitLines(lex) ==
    LET breaks == { i \in 1..Len(lex) : lex[i] = "\n" }
    IN IF breaks = {}
       THEN << lex >>
       ELSE << SubSeq(lex, 1, MinOf(breaks) - 1) >>
            \o SplitLines(SubSeq(lex, MinOf(breaks) + 1, Len(lex)))

LinesOf(code) == SplitLines([i \in 1..Len(code) |-> code[i].t])

IsComment(line) == Len(line) > 0 /\ line[1] = "#"

\* The statements of a text: its lines that are neither blank nor a comment.
Statements(code) == SelectSeq(LinesOf(code), LAMBDA l : Len(l) > 0 /\ ~IsComment(l))

\* What the plan does to the loaded table: the statements after the two
\* imports and the load of df.
Planned(code) == SubSeq(Statements(code), 4, Len(Statements(code)))

Comments(code) == SelectSeq(LinesOf(code), LAMBDA l : IsComment(l))

\* The lexemes run occurs in line, one after the other.
HasRun(line, run) ==
    \E i \in 0..(Len(line) - Len(run)) : SubSeq(line, i + 1, i + Len(run)) = run

ResultNone == << "result", " ", "=", " ", "None" >>
ResultDf == << "result", " ", "=", " ", "df" >>

\* The row count of a plan: the first argument of nlargest.
PlanRowCount(code) ==
    LET at == { i \in 1..Len(code) : code[i].t = "nlargest" /\ TokAt(code, i + 1) = "(" }
    IN IF at = {} THEN "" ELSE TokAt(code, MinOf(at) + 2)

\* C13: for a topn intent with a metric the plan's row count n is top_n when
\* top_n is given and 10 when it is absent, and n >= 1: a top_n of zero or
\* below is clamped to 1.
C13_TopNRowCount ==
    ( Coded({ "topn" }) /\ Truthy(response.intent.metric) )
    => LET top_n == response.intent.top_n
       IN PlanRowCount(response.code) =
            ToString(IF IsNone(top_n) THEN 10
                     ELSE IF Val(top_n) < 1 THEN 1 ELSE Val(top_n))

\* C14: compiling a sum, avg or topn intent without a metric, or a trend
\* intent without a time_field, gives a compile error: the plan transforms
\* nothing, its result is None and a comment reports the error, whatever the
\* other intent fields are.
C14_MissingFieldIsCompileError ==
    ( \/ Coded({ "sum", "avg", "topn" }) /\ ~Truthy(response.intent.metric)
      \/ Coded({ "trend" }) /\ ~Truthy(response.intent.time_field) )
    => /\ Planned(response.code) = << ResultNone >>
       /\ \E k \in 1..Len(Comments(response.code)) :
             HasRun(Comments(response.code)[k], << "#", " ", "Error:" >>)

\* A sum intent without a metric, with a group_by entry and a time_field, was
\* compiled to the error outcome; so was a trend intent with a metric and an
\* empty time_field.
C14_Witness ==
    \/ /\ Coded({ "sum" })
       /\ IsNone(response.intent.metric)
       /\ Len(response.intent.group_by) = 1
       /\ Truthy(response.intent.time_field)
       /\ Planned(response.code) = << ResultNone >>
    \/ /\ Coded({ "trend" })
       /\ Truthy(response.intent.metric)
       /\ response.intent.time_field = Some(nEmpty)
       /\ Planned(response.code) = << ResultNone >>

AggCountMeanSum ==
    << ".", "agg", "(", "[", "'", "count", "'", ",", " ", "'", "mean", "'", ",", " ",
       "'", "sum", "'", "]", ")" >>

SizeCount ==
    << ".", "size", "(", ")", ".", "reset_index", "(", "name", "=", "'", "count", "'", ")" >>

\* C15: compiling a groupby intent gives, with a non-empty group_by and a
\* metric, a summary of count, mean and sum of the metric per group; with a
\* non-empty group_by and no metric, a summary of row counts only; with an
\* empty group_by, the table unchanged, with or without a metric.
C15_GroupByShapes ==
    Coded({ "groupby" }) =>
      LET plan == Planned(response.code)
          metric == response.intent.metric
          group_by == response.intent.group_by
          grouped == [i \in 1..Len(GroupbyCall("df", group_by)) |-> GroupbyCall("df", group_by)[i].t]
      IN /\ Len(plan) = 1
         /\ ( Len(group_by) > 0 /\ Truthy(metric) ) =>
               plan[1] = << "result", " ", "=", " " >> \o grouped
                           \o << "[", "'" >> \o Val(metric) \o << "'", "]" >>
                           \o AggCountMeanSum \o << ".", "reset_index", "(", ")" >>
         /\ ( Len(group_by) > 0 /\ ~Truthy(metric) ) =>
               plan[1] = << "result", " ", "=", " " >> \o grouped \o SizeCount
         /\ Len(group_by) = 0 => plan[1] = ResultDf

\* A groupby intent with a metric and an empty group_by was compiled to the
\* unchanged table.
C15_Witness ==
    /\ Coded({ "groupby" })
    /\ Truthy(response.intent.metric)
    /\ Len(response.intent.group_by) = 0
    /\ Planned(response.code) = << ResultDf >>

\* C16: compiling an intent whose kind is none of sum, avg, trend, topn,
\* groupby, sort gives the table unchanged, with a comment that names the
\* unknown kind; the generator answers for every such intent.
C16_UnknownKindPassesThrough ==
    ( pc = "done" /\ response.kind = "code"
      /\ response.intent.analysis_type \notin valid_analysis_types )
    => /\ Planned(response.code) = << ResultDf >>
       /\ \E k \in 1..Len(Comments(response.code)) :
             HasRun(Comments(response.code)[k],
                    << "Unknown", " ", "analysis_type:", " ", response.intent.analysis_type >>)

\* An intent of the kind "pie", with a metric, was compiled.
C16_Witness ==
    /\ pc = "done" /\ response.kind = "code"
    /\ response.intent.analysis_type = "pie"
    /\ Truthy(response.intent.metric)
    /\ Planned(response.code) = << ResultDf >>

\* ------------------------------------------------------------------------
\* Properties of the runner
\* ------------------------------------------------------------------------
\* run_analysis_code has returned, for a compiled plan or for a posted body.
Ran == pc = "done" /\ response.kind \in { "run", "execute" }

\* exec() left a table in `result`.
LeftTable == response.outcome.kind = "value" /\ response.outcome.result.type = "DataFrame"
LeftSeries == response.outcome.kind = "value" /\ response.outcome.result.type = "Series"

\* C17: the preview run_analysis_code returns has at most 50 rows, also when
\* the transformed table has more than 50 rows, and its rows are the first 50
\* rows of the transformed table, in the table's order.
C17_PreviewAtMostFifty ==
    /\ ( Ran /\ LeftTable ) =>
         LET rows == response.outcome.result.rows
             preview == Val(response.result.result_preview)
         IN /\ ~IsNone(response.result.result_preview)
            /\ Len(preview) <= 50
            /\ Len(preview) = (IF Len(rows) > 50 THEN 50 ELSE Len(rows))
            /\ \A i \in 1..Len(preview) : preview[i] = rows[i]
    /\ ( Ran /\ LeftSeries ) =>
         Cardinality(DOMAIN Val(response.result.result_preview)) <= 50

\* A plan that leaves the table unchanged ran on a sheet of 51 rows and the
\* preview holds 50 of them.
C17_Witness ==
    /\ Ran /\ response.kind = "run" /\ LeftTable
    /\ Len(response.table.rows) = 51
    /\ Len(response.outcome.result.rows) = 51
    /\ Len(Val(response.result.result_preview)) = 50

Analyzed == pc = "done" /\ response.kind \in { "analysis", "error" }

ResponseKeys ==
    { "intent", "code", "target_file", "used_columns",
      "result_preview", "columns", "stdout", "error" }

\* The code field starts with "# Error".
CodeStartsWithError ==
    /\ Len(response.code) >= 3
    /\ << response.code[1].t, response.code[2].t, response.code[3].t >> = << "#", " ", "Error:" >>

\* The value the except branch returns.
IsErrorValue ==
    /\ ~IsNone(response.error)
    /\ IsNone(response.target_file)
    /\ response.used_columns = << >>
    /\ IsNone(response.result_preview)
    /\ CodeStartsWithError

\* exec() of the compiled text raised.
ExecutionRaised == response.kind = "analysis" /\ response.outcome.kind = "raise"

\* C19 as claimed: every /analyze call returns a value with the eight keys,
\* and when any stage raises, execution included, the value has error set,
\* target_file None, used_columns empty, result_preview None and a code field
\* starting with "# Error".
C19_AnyStageGivesErrorValue ==
    Analyzed =>
      /\ ResponseKeys \subseteq DOMAIN response
      /\ ( response.kind = "error" \/ ExecutionRaised ) => IsErrorValue

\* C19 as amended: every /analyze call returns a value with the eight keys;
\* when a stage before execution raises, the value has error set, target_file
\* None, used_columns empty, result_preview None and a code field starting
\* with "# Error"; when the execution raises, the value has error set and
\* result_preview and columns None, and carries the compiled code, the
\* selected target_file and the lineage of that code.
C19_ErrorValueOrExecutionError ==
    Analyzed =>
      /\ ResponseKeys \subseteq DOMAIN response
      /\ response.kind = "error" => IsErrorValue
      /\ ExecutionRaised =>
           /\ ~IsNone(response.error)
           /\ IsNone(response.result_preview)
           /\ IsNone(response.columns)
           /\ response.target_file = response.match_result.file_name
           /\ response.code = PlanCode(response.intent, response.match_result)
           /\ response.used_columns = extract_used_columns(response.code)

\* /analyze selected a dataset, compiled a plan and its execution raised; the
\* response carries the file and the compiled code next to the error.
C19_Witness ==
    /\ Analyzed /\ ExecutionRaised
    /\ ~IsNone(response.target_file)
    /\ ~CodeStartsWithError
    /\ ~IsNone(response.error)

\* ------------------------------------------------------------------------
\* Properties of the executed plans
\* ------------------------------------------------------------------------
\* The keys of the rows from row i on that are not in acc, in the order in
\* which the table has them first; an empty key cell makes a key of its own.
RECURSIVE FirstSeenKeys(_, _, _, _)
FirstSeenKeys(rows, group_by, i, acc) ==
    IF i > Len(rows)
    THEN acc
    ELSE IF GroupKey(rows[i], group_by) \in RangeOf(acc)
         THEN FirstSeenKeys(rows, group_by, i + 1, acc)
         ELSE FirstSeenKeys(rows, group_by, i + 1, Append(acc, GroupKey(rows[i], group_by)))

\* A sum or avg plan with a non-empty group_by ran on a sheet that has the
\* columns it names, the metric being a numeric column that is no group
\* column.
AggregateRan ==
    /\ Ran /\ response.kind = "run"
    /\ response.intent.analysis_type \in { "sum", "avg" }
    /\ Truthy(response.intent.metric)
    /\ Len(response.intent.group_by) >= 1
    /\ NoDup(response.intent.group_by)
    /\ ~Missing(RangeOf(response.intent.group_by) \cup { Val(response.intent.metric) },
                response.table)
    /\ IsNumeric(Val(response.intent.metric))
    /\ Val(response.intent.metric) \notin RangeOf(response.intent.group_by)

\* C20: executing a sum or avg plan with a non-empty group_by gives exactly
\* one output row per distinct tuple of group_by values in the table (an
\* empty key forming a group of its own), with the sum (or mean) of the
\* metric over the group's rows, the rows standing in the order in which the
\* table has the groups first.
C20_OneRowPerGroupFirstSeen ==
    AggregateRan =>
      LET group_by == response.intent.group_by
          metric == Val(response.intent.metric)
          agg_func == IF response.intent.analysis_type = "sum" THEN "sum" ELSE "mean"
          keys == FirstSeenKeys(response.table.rows, group_by, 1, << >>)
          out == response.outcome.result.rows
      IN /\ LeftTable
         /\ Len(out) = Len(keys)
         /\ \A n \in 1..Len(out) :
               /\ n <= Len(keys)
               /\ GroupKey(out[n], group_by) = keys[n]
               /\ out[n][metric] =
                    Aggregate(agg_func, RowsOfKey(response.table.rows, group_by, keys[n]), metric)

\* A topn plan ran on a sheet that has the metric as a numeric column, read
\* as such.
TopNRan ==
    /\ Ran /\ response.kind = "run"
    /\ response.intent.analysis_type = "topn"
    /\ Truthy(response.intent.metric)
    /\ ~Missing({ Val(response.intent.metric) }, response.table)
    /\ IsNumeric(Val(response.intent.metric))
    /\ response.outcome # Raise("TypeError", "")

\* Row j stands before row i in the descending order of col: its cell is
\* filled and larger (or i's is empty), or the cells are alike and j is the
\* earlier row.
Before(rows, col, j, i) ==
    LET nj == IsNull(rows[j], col)
        ni == IsNull(rows[i], col)
    IN \/ ~nj /\ ( ni \/ rows[j][col] > rows[i][col] )
       \/ /\ nj = ni
          /\ ( nj \/ rows[j][col] = rows[i][col] )
          /\ j < i

\* The place of row i in that order.
Place(rows, col, i) == 1 + Cardinality({ j \in 1..Len(rows) : Before(rows, col, j, i) })

\* C21: executing a topn plan with count n returns min(n, number of rows)
\* rows with all the columns of the table, in descending order of the metric
\* with empty metrics last and equal metrics in table order; the metric of
\* every returned row is at least that of every row not returned.
C21_TopNRows ==
    TopNRan =>
      LET n == TopNCount(response.intent.top_n)
          rows == response.table.rows
          metric == Val(response.intent.metric)
          out == response.outcome.result.rows
      IN /\ LeftTable
         /\ response.outcome.result.columns = response.table.columns
         /\ Len(out) = (IF n < Len(rows) THEN n ELSE Len(rows))
         /\ \A i \in 1..Len(rows) :
               Place(rows, metric, i) <= Len(out) => out[Place(rows, metric, i)] = rows[i]
         /\ \A i, j \in 1..Len(rows) :
               ( Place(rows, metric, i) <= Len(out) /\ Place(rows, metric, j) > Len(out) )
               => ( IsNull(rows[j], metric)
                    \/ ( ~IsNull(rows[i], metric) /\ rows[i][metric] >= rows[j][metric] ) )

\* A trend plan with a numeric metric and no other grouping ran on a sheet
\* that has the time field and the metric.
TrendRan ==
    /\ Ran /\ response.kind = "run"
    /\ response.intent.analysis_type = "trend"
    /\ Truthy(response.intent.time_field) /\ Truthy(response.intent.metric)
    /\ other_group_cols(response.intent.group_by, response.intent.time_field) = << >>
    /\ ~Missing({ Val(response.intent.time_field), Val(response.intent.metric) }, response.table)
    /\ IsNumeric(Val(response.intent.metric))

\* The rows of the sheet whose time cell is a text that is no date.
Unparseable(rows, time_field) ==
    SelectSeq(rows, LAMBDA r : r[time_field] # Null /\ MonthOf(r[time_field]) = 0)

\* C22: executing a trend plan with a metric and no other grouping on a sheet
\* whose rows all fall in one calendar month gives exactly one bucket, whose
\* value is the arithmetic mean of the metric over those rows; rows whose
\* time value is no date are in a bucket of their own and are not dropped.
C22_OneMonthOneBucket ==
    TrendRan =>
      LET rows == response.table.rows
          time_field == Val(response.intent.time_field)
          metric == Val(response.intent.metric)
          out == response.outcome.result.rows
          lost == Unparseable(rows, time_field)
      IN /\ ( /\ Len(rows) > 0
              /\ \A i \in 1..Len(rows) : MonthOf(rows[i][time_field]) # 0
              /\ \A i, j \in 1..Len(rows) :
                    MonthOf(rows[i][time_field]) = MonthOf(rows[j][time_field]) )
            => /\ LeftTable
               /\ Len(out) = 1
               /\ out[1][metric] = [num |-> SumOf(rows, metric), den |-> Len(rows)]
         /\ Len(lost) > 0
            => /\ LeftTable
               /\ \E k \in 1..Len(out) :
                     /\ out[k][time_field] \notin { MonthEnd(m) : m \in 1..3 }
                     /\ out[k][metric] = [num |-> SumOf(lost, metric), den |-> Len(lost)]

\* ------------------------------------------------------------------------
\* Properties of requests that overlap with an upload
\* ------------------------------------------------------------------------
\* C23: when an upload overlaps with analysis requests, a request that loads
\* the catalog reads a catalog that a rebuild has saved whole (each entry a
\* file of the data directory, no file twice), and the dataset it selects is
\* a file that is completely written.
C23_CompleteCatalogAndTable ==
    ( Analyzed /\ response.kind = "analysis" )
    => /\ \A k \in 1..Len(Catalog) : Catalog[k].file_name \in DOMAIN disk
       /\ NoDup([k \in 1..Len(Catalog) |-> Catalog[k].file_name])
       /\ ~IsNone(response.target_file) => Val(response.target_file) \notin opened

\* ------------------------------------------------------------------------
\* Properties of the index file
\* ------------------------------------------------------------------------
\* C24: when the index file is absent or its text does not parse, load_index
\* raises nothing and returns the empty catalog, and the match against that
\* catalog returns no dataset and the score zero.
C24_LostIndexIsEmptyCatalog ==
    ( pc = "done" /\ response.kind \in { "plan", "raised" }
      /\ ( IsNone(index) \/ IsGarbled(index) ) )
    => /\ response.kind = "plan"
       /\ load_index_call(index) = [kind |-> "value", result |-> << >>,
                                    stdout |-> load_index_call(index).stdout]
       /\ response.match_result.file_name = None
       /\ ScoreEq(response.match_result.score, ZeroScore)

\* A plan request with a metric was answered on a damaged index file, files
\* being in the data directory.
C24_Witness ==
    /\ pc = "done" /\ response.kind = "plan"
    /\ IsGarbled(index)
    /\ DOMAIN disk # {}
    /\ Truthy(response.intent.metric)
    /\ response.match_result.file_name = None

\* ------------------------------------------------------------------------
\* Properties of the speech connection
\* ------------------------------------------------------------------------
\* The callers that are inside process_final_transcript, past its guard.
InProgress == { c \in Callers : proc[c].stage = "suspended" }

\* The audio of the buffer has been answered: the final transcript was sent,
\* the last message is the analysis result or the error, the buffer is empty.
Answered ==
    /\ Len(audio_buffer) = 0
    /\ \E k \in 1..Len(sent) : sent[k] = "final_transcript"
    /\ Len(sent) > 0
    /\ IF Len(sent) = 0 THEN FALSE
       ELSE sent[Len(sent)] \in { "analysis_result", "error" }

\* C25: once chunks have been received and the silence of two seconds has
\* passed with audio in the buffer, the server eventually has sent the final
\* transcript followed by the analysis result or the error, and the buffer is
\* empty (unless the client speaks again or resets first).
C25_SilenceIsAnswered ==
    ( quiet /\ Len(audio_buffer) > 0 /\ cleared = {} )
    ~> ( Answered \/ ~quiet \/ cleared # {} )

\* C26: at most one execution of process_final_transcript is past its guard,
\* and the flag is true exactly while one is: it is false again when the
\* execution has ended, by its end, an exception or a cancellation.
C26_OneRunFlagged ==
    /\ Cardinality(InProgress) <= 1
    /\ processing <=> InProgress # {}

\* The timeout task is suspended in process_final_transcript, cancelled, and
\* the receive loop can bring an 'end' on a buffer that is not empty.
C26_Witness ==
    /\ processing
    /\ proc["timeout"].stage = "suspended" /\ proc["timeout"].cancelled
    /\ proc["receive"].stage = "out"
    /\ Len(audio_buffer) > 0

\* C27: a chunk that was received is in the buffer, or was in a buffer passed
\* to a final transcription, or was in a buffer that a 'reset' emptied; so a
\* chunk received while a final transcript is processed stays in the buffer.
C27_ChunksAreKept ==
    \A x \in 1..heard :
        x \in RangeOf(audio_buffer) \cup transcribed \cup cleared

\* A chunk came while a final transcript was processed, and the processing
\* has ended: the chunk is in the buffer and no transcription has had it.
C27_Witness ==
    /\ ~processing
    /\ timeout_task = "sleeping"
    /\ \E x \in RangeOf(audio_buffer) :
          /\ x \notin transcribed
          /\ \E y \in transcribed : y < x
    /\ Len(sent) > 0
    /\ IF Len(sent) = 0 THEN FALSE ELSE sent[Len(sent)] = "final_transcript"

\* ------------------------------------------------------------------------
\* Properties of the captured output
\* ------------------------------------------------------------------------
\* C28: when no call of run_analysis_code is in progress sys.stdout is the
\* stream it was before the calls, whatever the interleaving of two calls on
\* different workers was; and the "stdout" field a call returns holds the
\* output of that call only.
C28_StdoutRestoredAndOwn ==
    /\ ( \A w \in Workers : wpc[w] = "idle" ) => sys_stdout = 0
    /\ \A w \in Workers :
          \A k \in 1..Len(stdout_content[w].text) :
              stdout_content[w].text[k] = stdout_content[w].call

\* ------------------------------------------------------------------------
\* Properties of the handlers on a missing index file
\* ------------------------------------------------------------------------
\* C29: when /analyze, the speech pipeline or /list_files has answered with
\* files in the data directory, the index file exists (it was there, or the
\* handler has built and saved it) and every file of the directory was a
\* candidate: it is in the catalog, and in the list /list_files returns.
C29_MissingIndexIsBuilt ==
    ( pc = "done" /\ response.kind \in { "analysis", "files" } /\ DOMAIN disk # {} )
    => /\ ~IsNone(index)
       /\ DOMAIN disk \subseteq CatalogNames
       /\ response.kind = "files"
          => DOMAIN disk \subseteq { response.files[k].file_name :
                                       k \in 1..Len(response.files) }

\* ------------------------------------------------------------------------
\* Properties of the matcher on an empty metric
\* ------------------------------------------------------------------------
\* C30: the matcher passes over a dataset for lacking the metric only when
\* the metric is one of the fields counted in the denominator of the score;
\* for an intent whose metric is the empty string the result is the one the
\* group_by and time_field entries alone give (that of the same intent
\* without a metric).
C30_EmptyMetricIsNoRequirement ==
    Matched
    => /\ \A k \in 1..response.match_result.scanned :
             ScoreFile(response.intent, Catalog[k].columns).skip
             => Truthy(response.intent.metric)
       /\ response.intent.metric = Some(nEmpty)
          => response.match_result
               = match_excel_file([response.intent EXCEPT !.metric = None], Catalog)

====
